---- MODULE Spec2Model ----
(***************************************************************************)
(* A model of the tweet-thread generation core of Backend/tweet_generator  *)
(* (prompt template table, response parser, length clamp, numbering, cap)  *)
(* Text is a sequence of one-character strings, so that lengths, slices    *)
(* and concatenations are the ones the Python code computes.  Python       *)
(* objects that json.loads can build are records [type, val].              *)
(***************************************************************************)
EXTENDS Integers, Sequences, FiniteSets, TLC

VARIABLES
    pc,               \* position in generate_tweet_thread / parse_tweet_response
    topic, tone_arg, max_tweets, add_numbering,     \* the arguments
    tone,             \* the tone parameter, reassigned at lines 249-251
    fault,            \* what the model collaborator will do: "none", "init",
                      \* "init_value_error", "invoke"
    completion,       \* the text the model collaborator answers with
    invocations,      \* number of model.invoke calls made
    model_inits,      \* number of get_chat_model calls made
    os_environ,       \* process environment: the value of OPENAI_API_KEY (None when unset)
    settings_key,     \* settings.OPENAI_API_KEY, read from the configuration at import
    hpc,              \* position of the HTTP layer: "off", "idle", "core"
    request,          \* the validated body of POST /tweets/generate being served
    current_user,     \* id of the authenticated user of that request
    http,             \* the last HTTP response sent
    db_threads,       \* committed rows of tweet_threads
    db_histories,     \* committed rows of tweet_histories
    generated,        \* for each thread id, the list its generation returned
    posts,            \* number of POST /tweets/generate requests received
    commit_fault,     \* which db.commit() of the request being served fails:
                      \* "none", "thread" (line 75), "history" (line 93)
    db_users,         \* committed rows of users
    regs,             \* POST /auth/register requests being served, each in its thread
    registrations,    \* number of POST /auth/register requests received
    admin_session,    \* the token kept in the admin panel's session (None when absent)
    prompt_table,     \* the module-level table TWEET_PROMPTS
    calls,            \* concurrent generate_tweet_thread calls, each with its frame
    prompt_template,  \* local: the template chosen
    messages,         \* local: the system message content handed to the model
    response_text,    \* local: the completion received
    parsed,           \* outcome of parse_tweet_response
    tweets,           \* local: the parsed list
    valid_tweets,     \* local: the list being clamped, numbered and capped
    result            \* what generate_tweet_thread returned or raised

vars == <<pc, topic, tone_arg, tone, max_tweets, add_numbering, fault, completion, invocations,
          prompt_template, messages, response_text, parsed, tweets, valid_tweets, result,
          model_inits, os_environ, settings_key,
          hpc, request, current_user, http, db_threads, db_histories, generated, posts,
          commit_fault, db_users, regs, registrations, admin_session,
          prompt_table, calls>>

(***************************************************************************)
(* Bounds of the model.                                                    *)
(***************************************************************************)
\* longest completion text enumerated character by character
MaxTextLen == 5
\* most strings in a completion built from tweets of chosen lengths
MaxItems == 10

(***************************************************************************)
(* Python values.                                                          *)
(***************************************************************************)
PyStr(cs)   == [type |-> "str",  val |-> cs]
PyInt(ds)   == [type |-> "int",  val |-> ds]    \* val: the decimal digits
PyList(xs)  == [type |-> "list", val |-> xs]
PyNone      == [type |-> "None", val |-> <<>>]

\* len(x): defined for str and list, a TypeError for int and None
HasLen(x) == x.type \in {"str", "list"}
len(x)    == Len(x.val)

(***************************************************************************)
(* json.loads, restricted to texts over TextAlphabet: strings with the     *)
(* escapes \" and \\, unsigned integers, arrays, and blanks between        *)
(* tokens.  Every other character is one at which the scanner raises       *)
(* JSONDecodeError ("Expecting value").                                    *)
(***************************************************************************)
Quote      == "\""
Backslash  == "\\"
Whitespace == {" "}
Digits     == {"0", "1", "2", "3", "4", "5", "6", "7", "8", "9"}
\* the escapes of json.decoder.BACKSLASH spelled with characters in use
EscapeChars == {Quote, Backslash}

TextAlphabet == {"[", "]", Quote, ",", " ", "1", "a", Backslash}

JFail == [ok |-> FALSE, val |-> PyNone, end |-> 0]
JOk(v, e) == [ok |-> TRUE, val |-> v, end |-> e]

\* WHITESPACE.match(s, i).end(): the first index at or after i holding no blank
SkipWs(s, i) ==
    IF \E j \in i..Len(s) : s[j] \notin Whitespace
    THEN CHOOSE j \in i..Len(s) :
            /\ s[j] \notin Whitespace
            /\ \A k \in i..(j-1) : s[k] \in Whitespace
    ELSE Len(s) + 1

\* py_scanstring: i is the index after the opening quote, acc the decoded prefix
RECURSIVE ScanString(_, _, _)
ScanString(s, i, acc) ==
    IF ~ \E j \in i..Len(s) : s[j] \in {Quote, Backslash}
    THEN JFail                                   \* unterminated string
    ELSE LET j == CHOOSE j \in i..Len(s) :
                     /\ s[j] \in {Quote, Backslash}
                     /\ \A k \in i..(j-1) : s[k] \notin {Quote, Backslash}
             chunk == SubSeq(s, i, j-1)
         IN  IF s[j] = Quote
             THEN JOk(PyStr(acc \o chunk), j+1)
             ELSE IF j+1 <= Len(s) /\ s[j+1] \in EscapeChars
                  THEN ScanString(s, j+2, acc \o chunk \o <<s[j+1]>>)
                  ELSE JFail                     \* invalid or cut escape

\* NUMBER_RE at i: "0", or a non-zero digit followed by the longest digit run
ScanNumber(s, i) ==
    IF s[i] = "0"
    THEN JOk(PyInt(<<"0">>), i+1)
    ELSE LET e == IF \E j \in i..Len(s) : s[j] \notin Digits
                  THEN CHOOSE j \in i..Len(s) :
                          /\ s[j] \notin Digits
                          /\ \A k \in i..(j-1) : s[k] \in Digits
                  ELSE Len(s) + 1
         IN  JOk(PyInt(SubSeq(s, i, e-1)), e)

RECURSIVE ScanValue(_, _), ScanArray(_, _, _)
\* scanner.py_make_scanner._scan_once
ScanValue(s, i) ==
    IF i > Len(s) THEN JFail
    ELSE IF s[i] = Quote THEN ScanString(s, i+1, <<>>)
    ELSE IF s[i] = "["
         THEN LET j == SkipWs(s, i+1)
              IN  IF j <= Len(s) /\ s[j] = "]"
                  THEN JOk(PyList(<<>>), j+1)
                  ELSE ScanArray(s, j, <<>>)
    ELSE IF s[i] \in Digits THEN ScanNumber(s, i)
    ELSE JFail

\* decoder.JSONArray: i is the index of the next element, acc the elements so far
ScanArray(s, i, acc) ==
    LET v == ScanValue(s, i)
    IN  IF ~ v.ok THEN JFail
        ELSE LET j == SkipWs(s, v.end)
                 acc2 == Append(acc, v.val)
             IN  IF j > Len(s) THEN JFail
                 ELSE IF s[j] = "]" THEN JOk(PyList(acc2), j+1)
                 ELSE IF s[j] # "," THEN JFail
                 ELSE ScanArray(s, SkipWs(s, j+1), acc2)

\* json.loads(s): one value, blanks allowed around it, nothing else
json_loads(s) ==
    LET v == ScanValue(s, SkipWs(s, 1))
    IN  IF v.ok /\ SkipWs(s, v.end) = Len(s) + 1
        THEN [ok |-> TRUE, val |-> v.val]
        ELSE [ok |-> FALSE, val |-> PyNone]

(***************************************************************************)
(* re.search(r'\[.*\]', text, re.DOTALL): the leftmost "[" that has a "]"  *)
(* after it, and, the dot being greedy, the match runs to the last "]".    *)
(***************************************************************************)
NoMatch == [found |-> FALSE, start |-> 0, stop |-> 0]

\* (mutant) a lazy dot: the match stops at the first "]"
re_search_Lazy(s) ==
    IF \E a \in 1..Len(s) : s[a] = "[" /\ \E b \in (a+1)..Len(s) : s[b] = "]"
    THEN LET a == CHOOSE a \in 1..Len(s) :
                     /\ s[a] = "[" /\ \E b \in (a+1)..Len(s) : s[b] = "]"
                     /\ \A k \in 1..(a-1) :
                           ~ (s[k] = "[" /\ \E b \in (k+1)..Len(s) : s[b] = "]")
             b == CHOOSE b \in (a+1)..Len(s) :
                     /\ s[b] = "]"
                     /\ \A k \in (a+1)..(b-1) : s[k] # "]"
         IN  [found |-> TRUE, start |-> a, stop |-> b]
    ELSE NoMatch

re_search(s) ==
    IF \E a \in 1..Len(s) : s[a] = "[" /\ \E b \in (a+1)..Len(s) : s[b] = "]"
    THEN LET a == CHOOSE a \in 1..Len(s) :
                     /\ s[a] = "[" /\ \E b \in (a+1)..Len(s) : s[b] = "]"
                     /\ \A k \in 1..(a-1) :
                           ~ (s[k] = "[" /\ \E b \in (k+1)..Len(s) : s[b] = "]")
             b == CHOOSE b \in (a+1)..Len(s) :
                     /\ s[b] = "]"
                     /\ \A k \in (b+1)..Len(s) : s[k] # "]"
         IN  [found |-> TRUE, start |-> a, stop |-> b]
    ELSE NoMatch

\* json_match.group(0)
group0(s, m) == SubSeq(s, m.start, m.stop)

(***************************************************************************)
(* parse_tweet_response                                                    *)
(***************************************************************************)
ParseError == "Could not parse tweets from LLM response"

Returned(v) == [raised |-> FALSE, val |-> v, msg |-> ""]
Raised(m)   == [raised |-> TRUE, val |-> PyNone, msg |-> m]

\* (mutant) only the whole text is tried
parse_tweet_response_DirectOnly(text) ==
    LET direct == json_loads(text)
    IN  IF direct.ok /\ direct.val.type = "list"
        THEN Returned(direct.val)
        ELSE Raised(ParseError)

\* (mutant) the isinstance checks are missing
parse_tweet_response_AnyJson(text) ==
    LET direct == json_loads(text)
    IN  IF direct.ok
        THEN Returned(direct.val)
        ELSE LET m == re_search(text)
             IN  IF m.found /\ json_loads(group0(text, m)).ok
                 THEN Returned(json_loads(group0(text, m)).val)
                 ELSE Raised(ParseError)

parse_tweet_response(text) ==
    LET direct == json_loads(text)
    IN  IF direct.ok /\ direct.val.type = "list"
        THEN Returned(direct.val)
        ELSE LET m == re_search(text)
             IN  IF m.found
                 THEN LET inner == json_loads(group0(text, m))
                      IN  IF inner.ok /\ inner.val.type = "list"
                          THEN Returned(inner.val)
                          ELSE Raised(ParseError)
                 ELSE Raised(ParseError)


(***************************************************************************)
(* Python string and list primitives used by the generator.                *)
(***************************************************************************)
Min(a, b) == IF a < b THEN a ELSE b
Max(a, b) == IF a > b THEN a ELSE b

\* xs[:n], with Python's reading of a negative or too large n
SliceTo(xs, n) ==
    SubSeq(xs, 1, IF n < 0 THEN Max(Len(xs) + n, 0) ELSE Min(n, Len(xs)))

DigitChars == <<"0", "1", "2", "3", "4", "5", "6", "7", "8", "9">>

\* str(n) for n >= 0
RECURSIVE str_int(_)
str_int(n) ==
    IF n < 10 THEN <<DigitChars[n + 1]>>
    ELSE str_int(n \div 10) \o <<DigitChars[(n % 10) + 1]>>

UpperChars == <<"A", "B", "C", "D", "E", "F", "G", "H", "I", "J", "K", "L", "M",
                "N", "O", "P", "Q", "R", "S", "T", "U", "V", "W", "X", "Y", "Z">>
LowerChars == <<"a", "b", "c", "d", "e", "f", "g", "h", "i", "j", "k", "l", "m",
                "n", "o", "p", "q", "r", "s", "t", "u", "v", "w", "x", "y", "z">>

\* str.lower(), character by character
lower_char(c) ==
    IF \E k \in 1..Len(UpperChars) : UpperChars[k] = c
    THEN LowerChars[CHOOSE k \in 1..Len(UpperChars) : UpperChars[k] = c]
    ELSE c
lower(cs) == [k \in 1..Len(cs) |-> lower_char(cs[k])]

\* str.strip(): blanks removed at both ends
strip(cs) ==
    IF \A k \in 1..Len(cs) : cs[k] \in Whitespace THEN <<>>
    ELSE LET a == CHOOSE a \in 1..Len(cs) :
                     cs[a] \notin Whitespace /\ \A k \in 1..(a-1) : cs[k] \in Whitespace
             b == CHOOSE b \in 1..Len(cs) :
                     cs[b] \notin Whitespace /\ \A k \in (b+1)..Len(cs) : cs[k] \in Whitespace
         IN  SubSeq(cs, a, b)

\* truthiness of an Optional[str]
Truthy(x) == x.type = "str" /\ Len(x.val) > 0

(***************************************************************************)
(* TWEET_PROMPTS: tone -> template.  A template is its text cut at the     *)
(* replacement fields; a field is a piece of kind "slot".                  *)
(***************************************************************************)
Lit(t)       == [kind |-> "lit",    text |-> t, chars |-> <<>>]
Slot(n)      == [kind |-> "slot",   text |-> n, chars |-> <<>>]
Filled(n, v) == [kind |-> "filled", text |-> n, chars |-> v]

Template(who, what, r3, r4, r5) ==
    << Lit(who), Lit(what),
       Lit("Rules:"),
       Lit("- Each tweet must be EXACTLY under 280 characters"),
       Lit("- Create "), Slot("tweet_count"), Lit(" tweets that flow naturally"),
       Lit(r3), Lit(r4), Lit(r5),
       Lit("- Return ONLY a valid JSON array of strings, nothing else"),
       Lit("Topic: "), Slot("topic"),
       Lit("Return format: [\"Tweet 1 text here\", \"Tweet 2 text here\", ...]") >>

T_professional == <<"p","r","o","f","e","s","s","i","o","n","a","l">>
T_casual       == <<"c","a","s","u","a","l">>
T_humorous     == <<"h","u","m","o","r","o","u","s">>
T_engaging     == <<"e","n","g","a","g","i","n","g">>
T_educational  == <<"e","d","u","c","a","t","i","o","n","a","l">>

PromptKeys == {T_professional, T_casual, T_humorous, T_engaging, T_educational}

TWEET_PROMPTS(key) ==
    CASE key = T_professional ->
            Template("You are a professional social media strategist.",
                     "Create a professional and informative tweet thread.",
                     "- Use clear, professional language",
                     "- Focus on providing value and insights",
                     "- Add relevant hashtags only in the last tweet")
      [] key = T_casual ->
            Template("You are a friendly social media content creator.",
                     "Create a casual and conversational tweet thread.",
                     "- Use friendly, conversational tone",
                     "- Include personal touches and relatability",
                     "- Add appropriate emojis sparingly (1-2 per tweet max)")
      [] key = T_humorous ->
            Template("You are a witty social media personality.",
                     "Create an entertaining and humorous tweet thread.",
                     "- Use humor, wit, and clever observations",
                     "- Keep it lighthearted but informative",
                     "- Add relevant emojis to enhance humor")
      [] key = T_engaging ->
            Template("You are a social media expert specializing in engagement.",
                     "Create a highly engaging tweet thread.",
                     "- Use hooks, curiosity gaps, and strong conclusions",
                     "- Make it shareable and thought-provoking",
                     "- Include strategic emojis for emphasis")
      [] key = T_educational ->
            Template("You are an educational content creator.",
                     "Create an informative and educational tweet thread.",
                     "- Break down complex topics into simple explanations",
                     "- Use clear examples and analogies",
                     "- End with key takeaways or action items")

\* prompt_template.format(topic=..., tweet_count=...)
\* the table as the module holds it after import
PromptTable == [key \in PromptKeys |-> TWEET_PROMPTS(key)]

format(tpl, topic_chars, count) ==
    [k \in 1..Len(tpl) |->
        IF tpl[k].kind # "slot" THEN tpl[k]
        ELSE IF tpl[k].text = "topic" THEN Filled("topic", topic_chars)
        ELSE Filled("tweet_count", str_int(count))]

\* (mutant) the tone is looked up as given, without lower()
resolve_tone_CaseSensitive(t) ==
    IF Truthy(t) /\ t.val \in PromptKeys THEN t.val ELSE T_engaging

\* lines 249-251: the tone actually used
resolve_tone(t) ==
    LET lowered == IF Truthy(t) THEN lower(t.val) ELSE T_engaging
    IN  IF lowered \in PromptKeys THEN lowered ELSE T_engaging

(***************************************************************************)
(* The constraint steps of generate_tweet_thread (lines 280-295).          *)
(***************************************************************************)
TweetLimit == 280       \* validate_tweet_length's max_length, and line 166
ClampKeep  == 277       \* tweet[:277]
Dots       == <<".", ".", ".">>

\* (mutant) the limit itself counts as too long
validate_tweet_length_Strict(tweet) == len(tweet) < TweetLimit

\* validate_tweet_length(tweet): len(tweet) <= max_length
validate_tweet_length(tweet) == len(tweet) <= TweetLimit

\* line 287 and line 171: s[:n] + "..."
TrimWithDots(cs, n) == SliceTo(cs, n) \o Dots

\* lines 281-287.  len() of an int and list + "..." are TypeErrors.
ClampRaises(ts) ==
    \E i \in 1..Len(ts) :
        \/ ~ HasLen(ts[i])
        \/ (~ validate_tweet_length(ts[i]) /\ ts[i].type # "str")

ClampOne(tweet) ==
    IF validate_tweet_length(tweet) THEN tweet
    ELSE PyStr(TrimWithDots(tweet.val, ClampKeep))

ClampAll(ts) == [i \in 1..Len(ts) |-> ClampOne(ts[i])]

\* line 163: f"[{i}/{total}] "
thread_number(i, total) == <<"[">> \o str_int(i) \o <<"/">> \o str_int(total) \o <<"]", " ">>

\* (mutant) the prefix is added without looking at the length
NumberOne_NoTrim(tweet, i, total) == PyStr(thread_number(i, total) \o tweet.val)

\* (mutant) the room for "..." is forgotten
NumberOne_NoRoomForDots(tweet, i, total) ==
    LET prefix == thread_number(i, total)
    IN  IF Len(prefix \o tweet.val) <= TweetLimit
        THEN PyStr(prefix \o tweet.val)
        ELSE PyStr(prefix \o TrimWithDots(tweet.val, TweetLimit - Len(prefix)))

\* lines 166-172, one tweet
NumberOne(tweet, i, total) ==
    LET prefix == thread_number(i, total)
    IN  IF Len(prefix \o tweet.val) <= TweetLimit
        THEN PyStr(prefix \o tweet.val)
        ELSE LET max_tweet_length == TweetLimit - Len(prefix)
             IN  PyStr(prefix \o TrimWithDots(tweet.val, max_tweet_length - 3))

\* str + list is a TypeError
NumberingRaises(ts) == \E i \in 1..Len(ts) : ts[i].type # "str"

\* (mutant) the tweets are counted from 0
add_thread_numbering_ZeroBased(ts) ==
    [i \in 1..Len(ts) |-> NumberOne(ts[i], i - 1, Len(ts))]

\* add_thread_numbering
add_thread_numbering(ts) == [i \in 1..Len(ts) |-> NumberOne(ts[i], i, Len(ts))]

\* (mutant) a single tweet is numbered too
NumberingApplies_Single(flag, ts) == flag /\ Len(ts) >= 1

\* (mutant) the flag is not looked at
NumberingApplies_Always(flag, ts) == Len(ts) > 1

\* line 290
NumberingApplies(flag, ts) == flag /\ Len(ts) > 1

\* (mutant) no cap
CapTweets_Off(ts, n) == ts

\* (mutant) the last n are kept
CapTweets_Last(ts, n) == IF Len(ts) > n THEN SubSeq(ts, Len(ts) - n + 1, Len(ts)) ELSE ts

\* lines 294-295
CapTweets(ts, n) == IF Len(ts) > n THEN SliceTo(ts, n) ELSE ts

\* lines 280-295 as one transform of the parsed list: clamp, number, cap
EnforceRaises(ts, flag, n) ==
    \/ ClampRaises(ts)
    \/ (NumberingApplies(flag, ClampAll(ts)) /\ NumberingRaises(ClampAll(ts)))

Enforce(ts, flag, n) ==
    LET clamped  == ClampAll(ts)
        numbered == IF NumberingApplies(flag, clamped)
                    THEN add_thread_numbering(clamped)
                    ELSE clamped
    IN  CapTweets(numbered, n)

(***************************************************************************)
(* generate_tweet_thread, one action per step of its body.                 *)
(***************************************************************************)
MinTopicLen  == 10
MinTweets    == 1
MaxTweetsCap == 20

Pending == [status |-> "pending", exc |-> "", msg |-> <<>>,
            tweets |-> <<>>, tweet_count |-> 0, tone |-> PyNone, topic |-> PyNone]

Raise(kind, m) == [status |-> "raised", exc |-> kind, msg |-> m,
                   tweets |-> <<>>, tweet_count |-> 0, tone |-> PyNone, topic |-> PyNone]

\* the claims sub and user_id of a token that lacks them
NoSub   == <<>>
NoClaim == 0

\* a request without Authorization header; an empty admin session
NoToken == [present |-> FALSE, signed |-> FALSE, expired |-> FALSE,
            sub |-> NoSub, user_id |-> NoClaim]

\* no request is being served; no response has been sent.  A response keeps,
\* besides what is sent, the handler that ran, the outcome of the core that
\* it answers, the authenticated user it is sent to, the thread id that was
\* asked for and the credentials (token, or email and password) presented.
NoRequest  == [topic |-> PyNone, tone |-> PyNone, max_tweets |-> <<>>]
NoResponse == [op |-> "none", code |-> 0, detail |-> <<>>, tweets |-> <<>>,
               tweet_count |-> 0, topic |-> PyNone, thread_id |-> 0,
               user_id |-> 0, created_at |-> 0,
               threads |-> <<>>, total_count |-> 0, page |-> 0, page_size |-> 0,
               stats |-> <<>>,
               access_token |-> NoToken, email |-> PyNone,
               handler |-> "", ran |-> FALSE, path |-> <<>>,
               core |-> Pending, parse_failed |-> FALSE,
               user |-> 0, asked |-> 0, credentials |-> <<>>]

\* the cause leaving the call as the ValueError it was raised as
GenerationFailure_Unwrapped(cause) == Raise("ValueError", <<cause>>)
\* the failure swallowed: the call returns a result without tweets
GenerationFailure_Returned(cause) ==
    [status |-> "returned", exc |-> "", msg |-> <<>>,
     tweets |-> <<>>, tweet_count |-> 0, tone |-> PyNone, topic |-> PyNone]
\* line 305: every exception of the try block leaves as a plain Exception
GenerationFailure(cause) == Raise("Exception", <<"Failed to generate tweets: ", cause>>)

\* lines 297-302
GenerationResult(ts, tn, tp) ==
    [status |-> "returned", exc |-> "", msg |-> <<>>,
     tweets |-> ts, tweet_count |-> Len(ts), tone |-> PyStr(tn), topic |-> tp]

\* the length test made on the text as passed
TopicTooShort_NoStrip(tp) == ~ Truthy(tp) \/ Len(tp.val) < MinTopicLen
\* line 242
TopicTooShort(tp) == ~ Truthy(tp) \/ Len(strip(tp.val)) < MinTopicLen
\* the range test with both ends excluded
CountOutOfRange_Exclusive(n) == n <= MinTweets \/ n >= MaxTweetsCap
\* line 245
CountOutOfRange(n) == n < MinTweets \/ n > MaxTweetsCap

Locals == <<prompt_template, messages, response_text, parsed, tweets, valid_tweets>>
Args   == <<topic, tone_arg, max_tweets, add_numbering>>
Env    == <<fault, completion>>
\* the state of the HTTP layer and of the database
\* the users table and the requests of the authentication router
Auth   == <<db_users, regs, registrations, admin_session>>
Http   == <<hpc, request, current_user, http, db_threads, db_histories, generated, posts,
            commit_fault, Auth>>
\* state outside the call: configuration, HTTP layer, module globals, other calls
Outer  == <<settings_key, Http, prompt_table, calls>>
\* the model client's bookkeeping and the process environment it reads
ModelState == <<model_inits, os_environ>>
\* the faults that make the construction of the client fail
InitFaults == {"init", "init_value_error"}

\* lines 242-246
Validate ==
    /\ pc = "validate"
    /\ IF TopicTooShort(topic)
       THEN /\ result' = Raise("ValueError", <<"Topic must be at least 10 characters long">>)
            /\ pc' = "done"
       ELSE IF CountOutOfRange(max_tweets)
       THEN /\ result' = Raise("ValueError", <<"max_tweets must be between 1 and 20">>)
            /\ pc' = "done"
       ELSE /\ result' = result
            /\ pc' = "tone"
    /\ UNCHANGED <<Args, Env, Outer, ModelState, Locals, tone, invocations>>

\* lines 249-253
ResolveTone ==
    /\ pc = "tone"
    /\ tone' = PyStr(resolve_tone(tone))
    /\ prompt_template' = TWEET_PROMPTS(resolve_tone(tone))
    /\ pc' = "model"
    /\ UNCHANGED <<Args, Env, Outer, ModelState, invocations, messages, response_text, parsed, tweets,
                   valid_tweets, result>>

\* line 119
NeedsKey(env, skey) == Truthy(skey) /\ ~ Truthy(env)

\* lines 119-120: the key of the settings is copied into the process
\* environment when the environment has none
get_chat_model_env(env, skey) ==
    IF NeedsKey(env, skey) THEN skey ELSE env

\* lines 122-127: init_chat_model builds the client from the environment; it
\* fails when the collaborator does (fault) and when no key is to be found
init_chat_model_fails(env, flt) == flt \in InitFaults \/ env = PyNone

\* line 256: get_chat_model, called before the try block is entered, so
\* what it raises leaves the call as it is; the class of that exception is
\* the client library's choice ("init_value_error": a subclass of ValueError)
GetChatModel ==
    /\ pc = "model"
    /\ model_inits' = model_inits + 1
    /\ os_environ' = get_chat_model_env(os_environ, settings_key)
    /\ IF init_chat_model_fails(os_environ', fault)
       THEN /\ result' = Raise(IF fault = "init_value_error" THEN "ValueError"
                                                             ELSE "ModelInitError",
                               <<"init_chat_model failed">>)
            /\ pc' = "done"
       ELSE /\ result' = result
            /\ pc' = "invoke"
    /\ UNCHANGED <<Args, Env, Outer, Locals, tone, invocations>>

\* (mutant) a failed model call is made once more
Invoke_Retry ==
    /\ pc = "invoke"
    /\ messages' = format(prompt_template, topic.val, max_tweets)
    /\ invocations' = invocations + 1
    /\ IF fault = "invoke"
       THEN /\ result' = IF invocations = 0 THEN result
                         ELSE GenerationFailure("model call failed")
            /\ response_text' = response_text
            /\ pc' = IF invocations = 0 THEN "invoke" ELSE "done"
       ELSE /\ result' = result
            /\ response_text' = completion
            /\ pc' = "parse"
    /\ UNCHANGED <<Args, Env, Outer, ModelState, tone, prompt_template, parsed, tweets,
                   valid_tweets>>

\* lines 262-275
Invoke ==
    /\ pc = "invoke"
    /\ messages' = format(prompt_template, topic.val, max_tweets)
    /\ invocations' = invocations + 1
    /\ IF fault = "invoke"
       THEN /\ result' = GenerationFailure("model call failed")
            /\ response_text' = response_text
            /\ pc' = "done"
       ELSE /\ result' = result
            /\ response_text' = completion
            /\ pc' = "parse"
    /\ UNCHANGED <<Args, Env, Outer, ModelState, tone, prompt_template, parsed, tweets, valid_tweets>>

\* line 278
Parse ==
    /\ pc = "parse"
    /\ LET r == parse_tweet_response(response_text)
       IN  /\ parsed' = r
           /\ IF r.raised
              THEN /\ result' = GenerationFailure(r.msg)
                   /\ tweets' = tweets
                   /\ pc' = "done"
              ELSE /\ result' = result
                   /\ tweets' = r.val
                   /\ pc' = "clamp"
    /\ UNCHANGED <<Args, Env, Outer, ModelState, tone, invocations, prompt_template, messages,
                   response_text, valid_tweets>>

\* lines 281-287
Clamp ==
    /\ pc = "clamp"
    /\ IF ClampRaises(tweets.val)
       THEN /\ result' = GenerationFailure("TypeError")
            /\ valid_tweets' = valid_tweets
            /\ pc' = "done"
       ELSE /\ result' = result
            /\ valid_tweets' = ClampAll(tweets.val)
            /\ pc' = "number"
    /\ UNCHANGED <<Args, Env, Outer, ModelState, tone, invocations, prompt_template, messages,
                   response_text, parsed, tweets>>

\* lines 290-291
Number ==
    /\ pc = "number"
    /\ IF ~ NumberingApplies(add_numbering, valid_tweets)
       THEN /\ result' = result
            /\ valid_tweets' = valid_tweets
            /\ pc' = "cap"
       ELSE IF NumberingRaises(valid_tweets)
       THEN /\ result' = GenerationFailure("TypeError")
            /\ valid_tweets' = valid_tweets
            /\ pc' = "done"
       ELSE /\ result' = result
            /\ valid_tweets' = add_thread_numbering(valid_tweets)
            /\ pc' = "cap"
    /\ UNCHANGED <<Args, Env, Outer, ModelState, tone, invocations, prompt_template, messages,
                   response_text, parsed, tweets>>

\* lines 294-302
CapAndReturn ==
    /\ pc = "cap"
    /\ valid_tweets' = CapTweets(valid_tweets, max_tweets)
    /\ result' = GenerationResult(valid_tweets', tone.val, topic)
    /\ pc' = "done"
    /\ UNCHANGED <<Args, Env, Outer, ModelState, tone, invocations, prompt_template, messages,
                   response_text, parsed, tweets>>

Next ==
    \/ Validate
    \/ ResolveTone
    \/ GetChatModel
    \/ Invoke
    \/ Parse
    \/ Clamp
    \/ Number
    \/ CapAndReturn

(***************************************************************************)
(* The model collaborator's completions.  A completion is a JSON array     *)
(* text: its strings have the lengths around which the clamp and the       *)
(* numbering change behaviour, and their characters vary with position.    *)
(***************************************************************************)
BodyChars == <<"a", "b", "c", "d", "e", "f", "g">>
Body(n, seed) == [k \in 1..n |-> BodyChars[((k + seed) % Len(BodyChars)) + 1]]

Quoted(cs) == <<Quote>> \o cs \o <<Quote>>

RECURSIVE JoinFrom(_, _)
JoinFrom(elems, k) ==
    IF k > Len(elems) THEN <<>>
    ELSE (IF k > 1 THEN <<",", " ">> ELSE <<>>) \o elems[k] \o JoinFrom(elems, k + 1)

\* the text of a JSON array whose elements have the texts elems
ArrayText(elems) == <<"[">> \o JoinFrom(elems, 1) \o <<"]">>

ItemLens == <<0, 5, 272, 273, 274, 275, 277, 280, 281, 300>>

\* n strings; the j-th has the (off + j)-th length of ItemLens, cyclically
StringItems(n, off) ==
    [j \in 1..n |-> Quoted(Body(ItemLens[((off + j) % Len(ItemLens)) + 1], j))]

StringArrays ==
    {ArrayText(StringItems(n, off)) : n \in 0..MaxItems, off \in 0..(Len(ItemLens) - 1)}

ProseBefore == <<"H", "e", "r", "e", ":", " ">>
ProseAfter  == <<" ", "e", "n", "j", "o", "y", "!">>

WrappedArrays ==
    {ProseBefore \o ArrayText(StringItems(n, off)) \o ProseAfter :
        n \in 0..2, off \in 0..(Len(ItemLens) - 1)}

\* arrays holding something that is not a string, and texts that hold no array
OddCompletions ==
    { <<"[", "1", "]">>,
      <<"[", "[", "]", "]">>,
      <<"[", "[", "]", ",", "[", "]", "]">>,
      <<"[", Quote, "a", Quote, ",", "1", "]">>,
      <<"[", "[", "]", ",", Quote, "a", Quote, "]">>,
      <<"n", "o", "t", " ", "j", "s", "o", "n">>,
      <<Quote, "a", Quote>>,
      <<"[", Quote, "a", Quote, "]", " ", "x", " ", "[", Quote, "b", Quote, "]">>,
      <<"[", Quote, "a", Quote>>,
      <<>> }

\* three short tweets, and a text that is no JSON
StubCompletions ==
    { ArrayText(<<Quoted(<<"T", "w", "e", "e", "t", " ", "a", "b", "o", "u", "t", " ", "A", "I">>),
                  Quoted(<<"A", "n", "o", "t", "h", "e", "r", " ", "p", "o", "i", "n", "t">>),
                  Quoted(<<"F", "i", "n", "a", "l", " ", "t", "h", "o", "u", "g", "h", "t">>)>>),
      <<"n", "o", "t", " ", "j", "s", "o", "n">> }

Completions == StringArrays \cup WrappedArrays \cup OddCompletions \cup StubCompletions

ValidTopic == PyStr(<<"E", "x", "p", "l", "o", "r", "i", "n", "g", " ", "A", "I",
                      " ", "e", "t", "h", "i", "c", "s">>)

\* a topic of ten characters between blanks
BlankPaddedTopic == PyStr(<<" ", "t", "e", "n", " ", "c", "h", "a", "r", "s", "!", " ">>)

\* a key exported to the process, and the default of config.py
EnvKey == PyStr(<<"s", "k", "-", "e", "n", "v">>)
DefaultSettingsKey ==
    PyStr(<<"Y", "o", "u", "r", " ", "O", "p", "e", "n", "A", "I", " ", "A", "P", "I",
            " ", "K", "e", "y">>)

\* what the locals hold before the call starts
InitLocals ==
    /\ pc = "validate"
    /\ invocations = 0
    /\ model_inits = 0
    /\ prompt_template = <<>>
    /\ messages = <<>>
    /\ response_text = <<>>
    /\ parsed = Returned(PyNone)
    /\ tweets = PyNone
    /\ valid_tweets = <<>>
    /\ result = Pending

\* no user is registered, no registration is being served, nobody is logged
\* in to the admin panel
AuthOff ==
    /\ db_users = <<>>
    /\ regs = <<>>
    /\ registrations = 0
    /\ admin_session = NoToken

\* generate_tweet_thread called directly: no request, an empty database
HttpOff ==
    /\ hpc = "off"
    /\ request = NoRequest
    /\ current_user = 0
    /\ http = NoResponse
    /\ db_threads = <<>>
    /\ db_histories = <<>>
    /\ generated = <<>>
    /\ posts = 0
    /\ commit_fault = "none"
    /\ AuthOff
    /\ prompt_table = PromptTable
    /\ calls = <<>>

\* a call with valid arguments and a working model: the completion varies
Init ==
    /\ InitLocals
    /\ HttpOff
    /\ topic \in {ValidTopic, BlankPaddedTopic}
    /\ tone_arg = PyStr(T_engaging)
    /\ tone = tone_arg
    /\ max_tweets \in {1, 2, 5, 20}
    /\ add_numbering \in BOOLEAN
    /\ fault = "none"
    /\ completion \in Completions
    /\ os_environ = EnvKey
    /\ settings_key = DefaultSettingsKey

Spec == Init /\ [][Next]_vars

(***************************************************************************)
(* The parser on its own: every text of at most MaxTextLen characters.     *)
(***************************************************************************)
RECURSIVE SeqsUpTo(_, _)
SeqsUpTo(S, n) ==
    IF n = 0 THEN {<<>>}
    ELSE LET shorter == SeqsUpTo(S, n-1)
         IN  shorter \cup {Append(t, c) : t \in {u \in shorter : Len(u) = n-1}, c \in S}

\* the call has reached line 278 with the text as the model's completion
InitParse ==
    /\ pc = "parse"
    /\ HttpOff
    /\ topic = ValidTopic
    /\ tone_arg = PyStr(T_engaging)
    /\ tone = PyStr(resolve_tone(tone_arg))
    /\ max_tweets = 5
    /\ add_numbering = TRUE
    /\ fault = "none"
    /\ completion \in SeqsUpTo(TextAlphabet, MaxTextLen)
    /\ invocations = 1
    /\ model_inits = 1
    /\ os_environ = EnvKey
    /\ settings_key = DefaultSettingsKey
    /\ prompt_template = TWEET_PROMPTS(T_engaging)
    /\ messages = format(prompt_template, topic.val, max_tweets)
    /\ response_text = completion
    /\ parsed = Returned(PyNone)
    /\ tweets = PyNone
    /\ valid_tweets = <<>>
    /\ result = Pending

NextParse ==
    \/ Parse
    \/ Clamp
    \/ Number
    \/ CapAndReturn

SpecParse == InitParse /\ [][NextParse]_vars

(***************************************************************************)
(* Calls whose arguments and model collaborator vary: topics around the    *)
(* ten-character limit, tones in every spelling, counts around [1, 20],    *)
(* and a model that fails to initialise or to answer.                      *)
(***************************************************************************)
Topics ==
    { PyNone,
      PyStr(<<>>),
      PyStr(<<"s", "h", "o", "r", "t">>),
      PyStr(<<" ", " ", "n", "i", "n", "e", "c", "h", "a", "r", "s", " ", " ">>),
      PyStr(<<"t", "e", "n", " ", "c", "h", "a", "r", "s", "!">>),
      PyStr(<<" ", "t", "e", "n", " ", "c", "h", "a", "r", "s", "!", " ">>),
      ValidTopic }

Tones ==
    { PyNone,
      PyStr(<<>>),
      PyStr(T_professional),
      PyStr(<<"P", "r", "o", "f", "e", "s", "s", "i", "o", "n", "a", "l">>),
      PyStr(<<"C", "A", "S", "U", "A", "L">>),
      PyStr(T_humorous),
      PyStr(<<"h", "u", "m", "o", "r", "O", "U", "S">>),
      PyStr(T_engaging),
      PyStr(<<"E", "d", "u", "c", "a", "t", "i", "o", "n", "a", "l">>),
      PyStr(<<"s", "a", "r", "c", "a", "s", "t", "i", "c">>),
      PyStr(<<"c", "a", "s", "u", "a", "l", " ">>),
      PyStr(<<"F", "U", "N">>) }

Counts == {-1, 0, 1, 3, 20, 21}

InitArgs ==
    /\ InitLocals
    /\ HttpOff
    /\ topic \in Topics
    /\ tone_arg \in Tones
    /\ tone = tone_arg
    /\ max_tweets \in Counts
    /\ add_numbering \in BOOLEAN
    /\ fault \in {"none", "init", "init_value_error", "invoke"}
    /\ completion \in StubCompletions
    /\ os_environ \in {PyNone, EnvKey}
    /\ settings_key = DefaultSettingsKey

SpecArgs == InitArgs /\ [][Next]_vars

(***************************************************************************)
(* The HTTP layer of routers/tweets.py over the generation core: POST      *)
(* /tweets/generate runs generate_tweet_thread step by step, persists the  *)
(* thread and answers; GET /tweets/{thread_id} reads a thread back.        *)
(***************************************************************************)
\* most POST /tweets/generate requests served in a run
MaxPosts == 2
\* most POST /auth/register requests served in a run
MaxRegistrations == 3

Users == {1, 2}

HTTP_200_OK                    == 200
HTTP_201_CREATED               == 201
HTTP_204_NO_CONTENT            == 204
HTTP_400_BAD_REQUEST           == 400
HTTP_403_FORBIDDEN             == 403
HTTP_404_NOT_FOUND             == 404
HTTP_422_UNPROCESSABLE_ENTITY  == 422
HTTP_500_INTERNAL_SERVER_ERROR == 500

TopicMinLength  == 10
TopicMaxLength  == 500
SchemaMinTweets == 1
SchemaMaxTweets == 20
DefaultMaxTweets == 5

\* schemas.py 70-75: what pydantic accepts as a TweetGenerationRequest
RequestValid(b) ==
    /\ b.topic.type = "str"
    /\ Len(b.topic.val) >= TopicMinLength
    /\ Len(b.topic.val) <= TopicMaxLength
    /\ b.tone.type \in {"None", "str"}
    /\ \/ b.max_tweets = <<>>
       \/ (b.max_tweets[1] >= SchemaMinTweets /\ b.max_tweets[1] <= SchemaMaxTweets)

\* request.tone or "engaging"
ToneOrDefault(t) == IF Truthy(t) THEN t ELSE PyStr(T_engaging)
\* request.max_tweets or 5
MaxTweetsOrDefault(m) == IF m = <<>> \/ m[1] = 0 THEN DefaultMaxTweets ELSE m[1]

Response(op, code, detail) ==
    [NoResponse EXCEPT !.op = op, !.code = code, !.detail = detail]

\* pydantic's List[str]: every element is a str (no coercion of other types)
IsStrList(ts) == \A k \in 1..Len(ts) : ts[k].type = "str"

\* json.dumps: strings are quoted with " and \ escaped, items joined by ", "
EscapeChar(c) == IF c \in {Quote, Backslash} THEN <<Backslash, c>> ELSE <<c>>

\* the escaped characters lo..hi of cs, in order
RECURSIVE EscapeRange(_, _, _)
EscapeRange(cs, lo, hi) ==
    IF lo > hi THEN <<>>
    ELSE IF lo = hi THEN EscapeChar(cs[lo])
    ELSE LET mid == (lo + hi) \div 2
         IN  EscapeRange(cs, lo, mid) \o EscapeRange(cs, mid + 1, hi)

RECURSIVE json_dumps(_)
json_dumps(v) ==
    CASE v.type = "str"  -> Quoted(EscapeRange(v.val, 1, Len(v.val)))
      [] v.type = "int"  -> v.val
      [] v.type = "None" -> <<"n", "u", "l", "l">>
      [] v.type = "list" -> ArrayText([k \in 1..Len(v.val) |-> json_dumps(v.val[k])])

\* thread_id=None of the failed history record
NullId == 0

\* the ids of the rows of a table
RowIds(rows) == {rows[k].id : k \in 1..Len(rows)}

\* the id the database gives the next row of a table: an INTEGER PRIMARY KEY
\* of SQLite is one more than the largest id in the table
NextId(rows) ==
    IF rows = <<>> THEN 1
    ELSE (CHOOSE m \in RowIds(rows) : \A i \in RowIds(rows) : i <= m) + 1

\* Column(DateTime, default=datetime.utcnow): time is counted in the requests
\* received, a row is stamped with the time of the request that wrote it
utcnow == posts

\* db.add + db.commit of a TweetHistory: thread_id is declared nullable=False,
\* so a record without a thread is refused (IntegrityError) and no row is kept
InsertHistory(rows, thread_id, user_id, status) ==
    IF thread_id = NullId
    THEN rows
    ELSE Append(rows, [id |-> NextId(rows), thread_id |-> thread_id,
                       user_id |-> user_id, status |-> status])

\* the list a generation returned, kept under the id of the row it wrote
Remember(gen, id, ts) ==
    IF id <= Len(gen) THEN [gen EXCEPT ![id] = ts] ELSE Append(gen, ts)

\* the frame of generate_tweet_thread once the call is over
CoreIdle ==
    /\ pc' = "idle"
    /\ topic' = PyNone /\ tone_arg' = PyNone /\ tone' = PyNone
    /\ max_tweets' = 0 /\ add_numbering' = FALSE
    /\ fault' = "none" /\ completion' = <<>>
    /\ invocations' = 0 /\ model_inits' = 0
    /\ prompt_template' = <<>> /\ messages' = <<>> /\ response_text' = <<>>
    /\ parsed' = Returned(PyNone) /\ tweets' = PyNone /\ valid_tweets' = <<>>
    /\ result' = Pending

\* routers/tweets.py 35-61: the request body is validated against the schema
\* (a refused body is answered 422 by the framework), then the core is called
ReceiveGenerate(call) ==
    /\ hpc = "idle"
    /\ posts < MaxPosts
    /\ posts' = posts + 1
    /\ IF ~ RequestValid(call.body)
       THEN /\ http' = [Response("generate", HTTP_422_UNPROCESSABLE_ENTITY,
                                 <<"request validation error">>)
                            EXCEPT !.user = call.user]
            /\ UNCHANGED <<hpc, request, current_user, commit_fault, pc, Args, Env, tone>>
       ELSE /\ http' = NoResponse
            /\ request' = call.body
            /\ current_user' = call.user
            /\ fault' = call.fault
            /\ completion' = call.completion
            /\ commit_fault' = call.commit_fault
            /\ topic' = call.body.topic
            /\ tone_arg' = ToneOrDefault(call.body.tone)
            /\ tone' = tone_arg'
            /\ max_tweets' = MaxTweetsOrDefault(call.body.max_tweets)
            /\ add_numbering' = TRUE
            /\ pc' = "validate"
            /\ hpc' = "core"
    /\ UNCHANGED <<Locals, ModelState, invocations, result, settings_key,
                   db_threads, db_histories, generated, Auth, prompt_table, calls>>

\* what str(e) of a failed db.commit() reads
CommitError == <<"database commit failed">>

\* routers/tweets.py 63-126: what the handler does with the core's outcome
FinishGenerate ==
    /\ hpc = "core"
    /\ pc = "done"
    /\ hpc' = "idle"
    /\ LET sent(code, detail) ==
               [Response("generate", code, detail) EXCEPT
                    !.core = result, !.parse_failed = parsed.raised,
                    !.user = current_user]
           \* except Exception, lines 108-126: the failed history record is
           \* added and committed, whatever that raises is dropped
           failed(cause) ==
               /\ db_histories' = InsertHistory(db_histories, NullId, current_user, "failed")
               /\ http' = sent(HTTP_500_INTERNAL_SERVER_ERROR,
                               <<"Tweet generation failed: ">> \o cause)
       IN
       IF result.status = "raised" /\ result.exc = "ValueError"
       THEN \* except ValueError, lines 102-107
            /\ http' = sent(HTTP_400_BAD_REQUEST, result.msg)
            /\ UNCHANGED <<db_threads, db_histories, generated>>
       ELSE IF result.status = "raised"
       THEN /\ failed(result.msg)
            /\ UNCHANGED <<db_threads, generated>>
       ELSE \* lines 66-100: both commits are made before the response is built
            LET thread_content == json_dumps(PyList(result.tweets))
                db_thread == [id |-> NextId(db_threads),
                              user_id |-> current_user,
                              topic |-> request.topic,
                              thread_content |-> thread_content,
                              tweet_count |-> result.tweet_count,
                              created_at |-> utcnow]
            IN  IF commit_fault = "thread"
                THEN \* line 75 raises: the transaction is rolled back
                     /\ failed(CommitError)
                     /\ UNCHANGED <<db_threads, generated>>
                ELSE
                /\ db_threads' = Append(db_threads, db_thread)
                /\ generated' = Remember(generated, db_thread.id, result.tweets)
                /\ IF commit_fault = "history"
                   THEN \* line 93 raises: the thread was committed at line 75
                        failed(CommitError)
                   ELSE
                   /\ db_histories' = InsertHistory(db_histories, db_thread.id,
                                                    current_user, "success")
                   /\ IF IsStrList(result.tweets) /\ result.topic.type = "str"
                      THEN http' = [sent(HTTP_201_CREATED, <<>>) EXCEPT
                                        !.tweets = result.tweets,
                                        !.tweet_count = result.tweet_count,
                                        !.topic = result.topic,
                                        !.thread_id = db_thread.id]
                      ELSE \* TweetGenerationResponse refuses the body: pydantic's
                           \* ValidationError is a ValueError, caught at line 102
                           http' = sent(HTTP_400_BAD_REQUEST,
                                        <<"response validation error">>)
    /\ CoreIdle
    /\ request' = NoRequest
    /\ current_user' = 0
    /\ commit_fault' = "none"
    /\ UNCHANGED <<os_environ, settings_key, posts, Auth, prompt_table, calls>>

\* schemas.py 113-126
from_orm_with_parsed_tweets(db_thread) ==
    LET loaded == IF db_thread.thread_content # <<>>
                  THEN json_loads(db_thread.thread_content)
                  ELSE [ok |-> TRUE, val |-> PyList(<<>>)]
    IN  IF ~ loaded.ok
        THEN Response("get", HTTP_500_INTERNAL_SERVER_ERROR, <<"JSONDecodeError">>)
        ELSE IF loaded.val.type # "list" \/ ~ IsStrList(loaded.val.val)
        THEN Response("get", HTTP_500_INTERNAL_SERVER_ERROR, <<"ValidationError">>)
        ELSE [Response("get", HTTP_200_OK, <<>>) EXCEPT
                  !.tweets = loaded.val.val,
                  !.tweet_count = db_thread.tweet_count,
                  !.topic = db_thread.topic,
                  !.thread_id = db_thread.id,
                  !.user_id = db_thread.user_id,
                  !.created_at = db_thread.created_at]

\* db.query(TweetThread).filter(TweetThread.id == thread_id).first()
HasId(rows, thread_id) == \E k \in 1..Len(rows) : rows[k].id = thread_id
ById(rows, thread_id)  == rows[CHOOSE k \in 1..Len(rows) : rows[k].id = thread_id]

\* the thread answered to whoever asks for it
get_tweet_thread_NoOwnerCheck(rows, user, thread_id) ==
    IF ~ HasId(rows, thread_id)
    THEN Response("get", HTTP_404_NOT_FOUND, <<"Tweet thread not found">>)
    ELSE from_orm_with_parsed_tweets(ById(rows, thread_id))

\* routers/tweets.py 182-215
get_tweet_thread(rows, user, thread_id) ==
    IF ~ HasId(rows, thread_id)
    THEN Response("get", HTTP_404_NOT_FOUND, <<"Tweet thread not found">>)
    ELSE LET thread == ById(rows, thread_id)
         IN  IF thread.user_id # user
             THEN Response("get", HTTP_403_FORBIDDEN,
                           <<"You don't have permission to access this tweet thread">>)
             ELSE from_orm_with_parsed_tweets(thread)

\* the state of the rest of the program during a request that runs no core
NoCore == <<pc, Args, Env, Locals, ModelState, tone, invocations, result,
            settings_key, hpc, request, current_user, generated, posts,
            commit_fault, Auth, prompt_table, calls>>

GetTweetThread(user, thread_id) ==
    /\ hpc = "idle"
    /\ http' = [get_tweet_thread(db_threads, user, thread_id) EXCEPT
                    !.user = user, !.asked = thread_id]
    /\ UNCHANGED <<NoCore, db_threads, db_histories>>

\* the history records of a deleted thread kept in the table
delete_tweet_thread_NoCascade(threads, histories, user, thread_id) ==
    LET kept == [threads |-> threads, histories |-> histories]
    IN  IF ~ HasId(threads, thread_id)
        THEN kept @@ [response |-> Response("delete", HTTP_404_NOT_FOUND,
                                            <<"Tweet thread not found">>)]
        ELSE IF ById(threads, thread_id).user_id # user
        THEN kept @@ [response |-> Response("delete", HTTP_403_FORBIDDEN,
                          <<"You don't have permission to delete this tweet thread">>)]
        ELSE [threads   |-> SelectSeq(threads, LAMBDA r : r.id # thread_id),
              histories |-> histories,
              response  |-> Response("delete", HTTP_204_NO_CONTENT, <<>>)]

\* routers/tweets.py 218-254: db.delete(thread) deletes, through the cascade
\* of TweetThread.tweet_histories, the history records of the thread
delete_tweet_thread(threads, histories, user, thread_id) ==
    LET kept == [threads |-> threads, histories |-> histories]
    IN  IF ~ HasId(threads, thread_id)
        THEN kept @@ [response |-> Response("delete", HTTP_404_NOT_FOUND,
                                            <<"Tweet thread not found">>)]
        ELSE IF ById(threads, thread_id).user_id # user
        THEN kept @@ [response |-> Response("delete", HTTP_403_FORBIDDEN,
                          <<"You don't have permission to delete this tweet thread">>)]
        ELSE [threads   |-> SelectSeq(threads, LAMBDA r : r.id # thread_id),
              histories |-> SelectSeq(histories, LAMBDA h : h.thread_id # thread_id),
              response  |-> Response("delete", HTTP_204_NO_CONTENT, <<>>)]

DeleteTweetThread(user, thread_id) ==
    /\ hpc = "idle"
    /\ LET done == delete_tweet_thread(db_threads, db_histories, user, thread_id)
       IN  /\ db_threads' = done.threads
           /\ db_histories' = done.histories
           /\ http' = [done.response EXCEPT !.user = user, !.asked = thread_id]
    /\ UNCHANGED NoCore

\* .filter(TweetThread.user_id == current_user.id)
filter_user(rows, user) == SelectSeq(rows, LAMBDA r : r.user_id = user)

\* .order_by(TweetThread.created_at.desc())
RECURSIVE order_by_created_at_desc(_)
order_by_created_at_desc(rows) ==
    IF rows = <<>> THEN <<>>
    ELSE LET k == CHOOSE i \in 1..Len(rows) :
                      \A j \in 1..Len(rows) : rows[j].created_at <= rows[i].created_at
         IN  <<rows[k]>> \o
             order_by_created_at_desc(SubSeq(rows, 1, k - 1) \o SubSeq(rows, k + 1, Len(rows)))

\* .offset(offset).limit(limit)
offset_limit(rows, offset, limit) ==
    SubSeq(rows, offset + 1, Min(offset + limit, Len(rows)))

\* the page taken from the threads in the order of their insertion
get_user_tweet_history_Unordered(rows, user, page, page_size) ==
    LET offset  == (page - 1) * page_size
        threads == offset_limit(filter_user(rows, user), offset, page_size)
        parsed_threads ==
            [k \in 1..Len(threads) |-> from_orm_with_parsed_tweets(threads[k])]
    IN  IF \E k \in 1..Len(threads) : parsed_threads[k].code # HTTP_200_OK
        THEN Response("history", HTTP_500_INTERNAL_SERVER_ERROR, <<"Internal server error">>)
        ELSE [Response("history", HTTP_200_OK, <<>>) EXCEPT
                  !.threads = parsed_threads,
                  !.total_count = Len(filter_user(rows, user)),
                  !.page = page,
                  !.page_size = page_size]

\* routers/tweets.py 148-175; an exception of from_orm_with_parsed_tweets is
\* answered by the general exception handler of main.py
get_user_tweet_history(rows, user, page, page_size) ==
    LET offset  == (page - 1) * page_size
        threads == offset_limit(order_by_created_at_desc(filter_user(rows, user)),
                                offset, page_size)
        total_count == Len(filter_user(rows, user))
        parsed_threads ==
            [k \in 1..Len(threads) |-> from_orm_with_parsed_tweets(threads[k])]
    IN  IF \E k \in 1..Len(threads) : parsed_threads[k].code # HTTP_200_OK
        THEN Response("history", HTTP_500_INTERNAL_SERVER_ERROR, <<"Internal server error">>)
        ELSE [Response("history", HTTP_200_OK, <<>>) EXCEPT
                  !.threads = parsed_threads,
                  !.total_count = total_count,
                  !.page = page,
                  !.page_size = page_size]

PageMin     == 1
PageSizeMin == 1
PageSizeMax == 100

\* routers/tweets.py 133-139: Query(1, ge=1) and Query(10, ge=1, le=100)
GetHistory(user, page, page_size) ==
    /\ hpc = "idle"
    /\ http' = [(IF page < PageMin \/ page_size < PageSizeMin \/ page_size > PageSizeMax
                 THEN [Response("history", HTTP_422_UNPROCESSABLE_ENTITY,
                                <<"request validation error">>)
                           EXCEPT !.page = page, !.page_size = page_size]
                 ELSE get_user_tweet_history(db_threads, user, page, page_size))
                    EXCEPT !.user = user]
    /\ UNCHANGED <<NoCore, db_threads, db_histories>>

\* .filter(TweetHistory.user_id == ...).filter(TweetHistory.status == ...).count()
count_status(histories, user, status) ==
    Cardinality({k \in 1..Len(histories) :
                     histories[k].user_id = user /\ histories[k].status = status})

RECURSIVE sum_tweet_count(_)
sum_tweet_count(rows) ==
    IF rows = <<>> THEN 0 ELSE Head(rows).tweet_count + sum_tweet_count(Tail(rows))

\* routers/tweets.py 261-319, the counts
get_user_stats(threads, histories, user) ==
    [total_threads          |-> Len(filter_user(threads, user)),
     total_tweets           |-> sum_tweet_count(filter_user(threads, user)),
     total_generations      |-> Len(filter_user(histories, user)),
     successful_generations |-> count_status(histories, user, "success"),
     failed_generations     |-> count_status(histories, user, "failed")]

GetUserStats(user) ==
    /\ hpc = "idle"
    /\ http' = [Response("stats", HTTP_200_OK, <<>>) EXCEPT
                    !.stats = get_user_stats(db_threads, db_histories, user),
                    !.user = user]
    /\ UNCHANGED <<NoCore, db_threads, db_histories>>

(***************************************************************************)
(* Requests: bodies the schema refuses, topics only the core refuses,      *)
(* completions that parse or not, with quotes and backslashes, with        *)
(* elements that are not strings; a model that fails; a database that      *)
(* fails at one of the two commits.                                        *)
(***************************************************************************)
PaddedTopic ==
    PyStr(<<" ", " ", "n", "i", "n", "e", "c", "h", "a", "r", "s", " ", " ">>)

RequestBody(tp, tn, mt) == [topic |-> tp, tone |-> tn, max_tweets |-> mt]

EscapedCompletion ==
    ArrayText(<<Quoted(<<"s", "a", "y", " ", Backslash, Quote, "h", "i", Backslash, Quote>>),
                Quoted(<<"a", Backslash, Backslash, "b">>)>>)

HttpCompletions ==
    StubCompletions \cup
    { EscapedCompletion,
      <<"[", "]">>,
      <<"[", "[", "]", "]">>,
      <<"[", "1", "]">>,
      ArrayText(StringItems(3, 5)) }

HttpCalls ==
    { [body |-> RequestBody(ValidTopic, tn, mt), user |-> u, fault |-> "none",
       completion |-> c, commit_fault |-> "none"] :
          tn \in {PyNone, PyStr(T_casual)}, mt \in {<<>>, <<2>>}, u \in Users,
          c \in HttpCompletions }
    \cup
    { [body |-> RequestBody(tp, PyNone, mt), user |-> 1, fault |-> f,
       completion |-> ArrayText(StringItems(2, 0)), commit_fault |-> "none"] :
          tp \in {PyNone, PyStr(<<"s", "h", "o", "r", "t">>), PaddedTopic, ValidTopic},
          mt \in {<<>>, <<0>>, <<20>>, <<21>>},
          f \in {"none", "init", "init_value_error", "invoke"} }
    \cup
    { [body |-> RequestBody(ValidTopic, PyNone, <<>>), user |-> u, fault |-> "none",
       completion |-> ArrayText(StringItems(2, 0)), commit_fault |-> cf] :
          u \in Users, cf \in {"thread", "history"} }

\* thread ids asked for: those the database can hold and one more
ThreadIds == 1..(MaxPosts + 1)
\* pages and page sizes asked for, around the limits of the query parameters
Pages     == 0..(MaxPosts + 1)
PageSizes == {0, 1, 2, PageSizeMax, PageSizeMax + 1}

InitHttp ==
    /\ pc = "idle"
    /\ topic = PyNone /\ tone_arg = PyNone /\ tone = PyNone
    /\ max_tweets = 0 /\ add_numbering = FALSE
    /\ fault = "none" /\ completion = <<>>
    /\ invocations = 0 /\ model_inits = 0
    /\ prompt_template = <<>> /\ messages = <<>> /\ response_text = <<>>
    /\ parsed = Returned(PyNone) /\ tweets = PyNone /\ valid_tweets = <<>>
    /\ result = Pending
    /\ os_environ = EnvKey
    /\ settings_key = DefaultSettingsKey
    /\ hpc = "idle"
    /\ request = NoRequest
    /\ current_user = 0
    /\ http = NoResponse
    /\ db_threads = <<>>
    /\ db_histories = <<>>
    /\ generated = <<>>
    /\ posts = 0
    /\ commit_fault = "none"
    /\ AuthOff
    /\ prompt_table = PromptTable
    /\ calls = <<>>

NextHttp ==
    \/ \E call \in HttpCalls : ReceiveGenerate(call)
    \/ Validate
    \/ ResolveTone
    \/ GetChatModel
    \/ Invoke
    \/ Parse
    \/ Clamp
    \/ Number
    \/ CapAndReturn
    \/ FinishGenerate
    \/ \E user \in Users, thread_id \in ThreadIds : GetTweetThread(user, thread_id)

SpecHttp == InitHttp /\ [][NextHttp]_vars

(***************************************************************************)
(* The stored threads: generation, reading, deletion, history pages and    *)
(* statistics, over requests whose completions are short.                  *)
(***************************************************************************)
\* a JSON array of n strings of a few characters each
ShortCompletion(n) == ArrayText([j \in 1..n |-> Quoted(Body(3 + j, j))])

ThreadCalls ==
    { [body |-> RequestBody(ValidTopic, PyNone, <<>>), user |-> u, fault |-> f,
       completion |-> c, commit_fault |-> "none"] :
          u \in Users, f \in {"none", "invoke"},
          c \in {ShortCompletion(1), ShortCompletion(2), <<"[", "[", "]", "]">>, <<"n", "o">>} }
    \cup
    { [body |-> RequestBody(ValidTopic, PyNone, <<>>), user |-> u, fault |-> "none",
       completion |-> ShortCompletion(2), commit_fault |-> cf] :
          u \in Users, cf \in {"thread", "history"} }
    \cup
    { [body |-> RequestBody(PaddedTopic, PyNone, <<>>), user |-> u, fault |-> "none",
       completion |-> ShortCompletion(2), commit_fault |-> "none"] : u \in Users }

NextThreads ==
    \/ \E call \in ThreadCalls : ReceiveGenerate(call)
    \/ Validate
    \/ ResolveTone
    \/ GetChatModel
    \/ Invoke
    \/ Parse
    \/ Clamp
    \/ Number
    \/ CapAndReturn
    \/ FinishGenerate
    \/ \E user \in Users, thread_id \in ThreadIds : GetTweetThread(user, thread_id)
    \/ \E user \in Users, thread_id \in ThreadIds : DeleteTweetThread(user, thread_id)
    \/ \E user \in Users, page \in Pages, page_size \in PageSizes :
           GetHistory(user, page, page_size)
    \/ \E user \in Users : GetUserStats(user)

SpecThreads == InitHttp /\ [][NextThreads]_vars

(***************************************************************************)
(* Concurrent calls of generate_tweet_thread in one process.  Each call    *)
(* has its own frame; the process environment, the settings and the        *)
(* prompt table are shared.  The steps of get_chat_model that read and     *)
(* write the environment are taken one at a time.                          *)
(***************************************************************************)
\* number of calls running concurrently
NumCalls == 2

Callers == 1..NumCalls

\* what a call ends with once the model has answered: lines 278-305
AfterCompletion(text, flag, n, tn, tp) ==
    LET r == parse_tweet_response(text)
    IN  IF r.raised THEN GenerationFailure(r.msg)
        ELSE IF EnforceRaises(r.val.val, flag, n) THEN GenerationFailure("TypeError")
        ELSE GenerationResult(Enforce(r.val.val, flag, n), tn, tp)

\* what construction of the client raises
InitError(flt) ==
    Raise(IF flt = "init_value_error" THEN "ValueError" ELSE "ModelInitError",
          <<"init_chat_model failed">>)

\* the call with arguments a run from beginning to end with nothing else
\* running, in a process whose environment holds env
RunAlone(a, env, skey) ==
    IF TopicTooShort(a.topic)
    THEN [result |-> Raise("ValueError", <<"Topic must be at least 10 characters long">>),
          client_key |-> PyNone]
    ELSE IF CountOutOfRange(a.max_tweets)
    THEN [result |-> Raise("ValueError", <<"max_tweets must be between 1 and 20">>),
          client_key |-> PyNone]
    ELSE LET key == get_chat_model_env(env, skey)
         IN  IF init_chat_model_fails(key, a.fault)
             THEN [result |-> InitError(a.fault), client_key |-> PyNone]
             ELSE [result |-> IF a.fault = "invoke"
                              THEN GenerationFailure("model call failed")
                              ELSE AfterCompletion(a.completion, a.add_numbering,
                                                   a.max_tweets, resolve_tone(a.tone), a.topic),
                   client_key |-> key]

\* the frame of a call that has just been entered
NewCall(a, env) ==
    [pc |-> "validate", args |-> a, env0 |-> env, tone |-> a.tone,
     prompt_template |-> <<>>, client_key |-> PyNone, wrote_key |-> FALSE,
     messages |-> <<>>, response_text |-> <<>>, result |-> Pending]

\* the rest of the state is left alone by the steps of a call
CallFrame == <<pc, Args, Env, Locals, tone, invocations, result, model_inits, Http>>

\* lines 242-246
CallValidate(i) ==
    LET c == calls[i]
    IN  /\ c.pc = "validate"
        /\ calls' = [calls EXCEPT ![i] =
             IF TopicTooShort(c.args.topic)
             THEN [c EXCEPT !.pc = "done",
                            !.result = Raise("ValueError",
                                             <<"Topic must be at least 10 characters long">>)]
             ELSE IF CountOutOfRange(c.args.max_tweets)
             THEN [c EXCEPT !.pc = "done",
                            !.result = Raise("ValueError",
                                             <<"max_tweets must be between 1 and 20">>)]
             ELSE [c EXCEPT !.pc = "tone"]]
        /\ UNCHANGED <<CallFrame, os_environ, settings_key, prompt_table>>

\* lines 249-253: the one read of the prompt table
CallResolveTone(i) ==
    LET c == calls[i]
    IN  /\ c.pc = "tone"
        /\ calls' = [calls EXCEPT ![i] =
             [c EXCEPT !.pc = "check_key",
                       !.tone = PyStr(resolve_tone(c.tone)),
                       !.prompt_template = prompt_table[resolve_tone(c.tone)]]]
        /\ UNCHANGED <<CallFrame, os_environ, settings_key, prompt_table>>

\* line 119: the test on the settings and on the environment
CallCheckKey(i) ==
    LET c == calls[i]
    IN  /\ c.pc = "check_key"
        /\ calls' = [calls EXCEPT ![i] =
             [c EXCEPT !.pc = IF NeedsKey(os_environ, settings_key)
                              THEN "write_key" ELSE "init_model"]]
        /\ UNCHANGED <<CallFrame, os_environ, settings_key, prompt_table>>

\* line 120: os.environ["OPENAI_API_KEY"] = settings.OPENAI_API_KEY
CallWriteKey(i) ==
    LET c == calls[i]
    IN  /\ c.pc = "write_key"
        /\ os_environ' = settings_key
        /\ calls' = [calls EXCEPT ![i] = [c EXCEPT !.pc = "init_model", !.wrote_key = TRUE]]
        /\ UNCHANGED <<CallFrame, settings_key, prompt_table>>

\* (mutant) the call takes the key it wrote out of the environment again
CallInitModel_Restore(i) ==
    LET c == calls[i]
    IN  /\ c.pc = "init_model"
        /\ calls' = [calls EXCEPT ![i] =
             IF init_chat_model_fails(os_environ, c.args.fault)
             THEN [c EXCEPT !.pc = "done", !.result = InitError(c.args.fault)]
             ELSE [c EXCEPT !.pc = "invoke", !.client_key = os_environ]]
        /\ os_environ' = IF c.wrote_key THEN PyNone ELSE os_environ
        /\ UNCHANGED <<CallFrame, settings_key, prompt_table>>

\* lines 122-127: init_chat_model, which takes the key from the environment
CallInitModel(i) ==
    LET c == calls[i]
    IN  /\ c.pc = "init_model"
        /\ calls' = [calls EXCEPT ![i] =
             IF init_chat_model_fails(os_environ, c.args.fault)
             THEN [c EXCEPT !.pc = "done", !.result = InitError(c.args.fault)]
             ELSE [c EXCEPT !.pc = "invoke", !.client_key = os_environ]]
        /\ UNCHANGED <<CallFrame, os_environ, settings_key, prompt_table>>

\* lines 262-275
CallInvoke(i) ==
    LET c == calls[i]
    IN  /\ c.pc = "invoke"
        /\ calls' = [calls EXCEPT ![i] =
             IF c.args.fault = "invoke"
             THEN [c EXCEPT !.pc = "done",
                            !.messages = format(c.prompt_template, c.args.topic.val,
                                                c.args.max_tweets),
                            !.result = GenerationFailure("model call failed")]
             ELSE [c EXCEPT !.pc = "finish",
                            !.messages = format(c.prompt_template, c.args.topic.val,
                                                c.args.max_tweets),
                            !.response_text = c.args.completion]]
        /\ UNCHANGED <<CallFrame, os_environ, settings_key, prompt_table>>

\* lines 278-305: parse, clamp, number, cap and return, all on locals
CallFinish(i) ==
    LET c == calls[i]
    IN  /\ c.pc = "finish"
        /\ calls' = [calls EXCEPT ![i] =
             [c EXCEPT !.pc = "done",
                       !.result = AfterCompletion(c.response_text, c.args.add_numbering,
                                                  c.args.max_tweets, c.tone.val,
                                                  c.args.topic)]]
        /\ UNCHANGED <<CallFrame, os_environ, settings_key, prompt_table>>

CallArgs(tp, tn, n, flag, flt, text) ==
    [topic |-> tp, tone |-> tn, max_tweets |-> n, add_numbering |-> flag,
     fault |-> flt, completion |-> text]

ThreeTweets ==
    ArrayText(<<Quoted(<<"T", "w", "e", "e", "t", " ", "a", "b", "o", "u", "t", " ", "A", "I">>),
                Quoted(<<"A", "n", "o", "t", "h", "e", "r", " ", "p", "o", "i", "n", "t">>),
                Quoted(<<"F", "i", "n", "a", "l", " ", "t", "h", "o", "u", "g", "h", "t">>)>>)

ConcurrentArgs ==
    { CallArgs(ValidTopic, PyStr(<<"C", "A", "S", "U", "A", "L">>), 3, TRUE, "none", ThreeTweets),
      CallArgs(BlankPaddedTopic, PyNone, 2, TRUE, "none", ThreeTweets),
      CallArgs(ValidTopic, PyStr(T_humorous), 3, FALSE, "none",
               <<"n", "o", "t", " ", "j", "s", "o", "n">>),
      CallArgs(PyStr(<<"s", "h", "o", "r", "t">>), PyNone, 21, TRUE, "none", ThreeTweets),
      CallArgs(ValidTopic, PyNone, 3, TRUE, "init", ThreeTweets),
      CallArgs(ValidTopic, PyNone, 3, TRUE, "invoke", ThreeTweets) }

InitConcurrent ==
    /\ pc = "idle"
    /\ topic = PyNone /\ tone_arg = PyNone /\ tone = PyNone
    /\ max_tweets = 0 /\ add_numbering = FALSE
    /\ fault = "none" /\ completion = <<>>
    /\ invocations = 0 /\ model_inits = 0
    /\ prompt_template = <<>> /\ messages = <<>> /\ response_text = <<>>
    /\ parsed = Returned(PyNone) /\ tweets = PyNone /\ valid_tweets = <<>>
    /\ result = Pending
    /\ hpc = "off"
    /\ request = NoRequest
    /\ current_user = 0
    /\ http = NoResponse
    /\ db_threads = <<>>
    /\ db_histories = <<>>
    /\ generated = <<>>
    /\ posts = 0
    /\ commit_fault = "none"
    /\ AuthOff
    /\ prompt_table = PromptTable
    /\ settings_key \in {PyStr(<<>>), DefaultSettingsKey}
    /\ os_environ \in {PyNone, EnvKey}
    /\ calls \in {[i \in Callers |-> NewCall(a[i], os_environ)] :
                     a \in [Callers -> ConcurrentArgs]}

NextConcurrent ==
    \E i \in Callers :
        \/ CallValidate(i)
        \/ CallResolveTone(i)
        \/ CallCheckKey(i)
        \/ CallWriteKey(i)
        \/ CallInitModel(i)
        \/ CallInvoke(i)
        \/ CallFinish(i)

SpecConcurrent == InitConcurrent /\ [][NextConcurrent]_vars

(***************************************************************************)
(* Authentication: routers/auth.py, utils/auth_utils.py and admin.py over  *)
(* the users table.  A JWT is what decodes from it: the claims sub and     *)
(* user_id (the empty text and 0 when the claim is absent; no email is     *)
(* empty and ids start at 1), whether its signature verifies under         *)
(* SECRET_KEY and whether its exp has passed.                              *)
(***************************************************************************)
HTTP_302_FOUND              == 302
HTTP_401_UNAUTHORIZED       == 401
HTTP_405_METHOD_NOT_ALLOWED == 405

\* auth_utils.py 50-79: the token is signed with SECRET_KEY and expires later
create_access_token(sub, user_id) ==
    [present |-> TRUE, signed |-> TRUE, expired |-> FALSE, sub |-> sub, user_id |-> user_id]

NoPayload == [ok |-> FALSE, sub |-> NoSub, user_id |-> NoClaim]

\* auth_utils.py 82-100: jwt.decode raises JWTError for a bad signature and
\* for an expired token (ExpiredSignatureError), and None is returned
decode_access_token(token) ==
    IF token.signed /\ ~ token.expired
    THEN [ok |-> TRUE, sub |-> token.sub, user_id |-> token.user_id]
    ELSE NoPayload

\* auth_utils.py 19-43: bcrypt, for passwords within its 72 bytes; verify
\* accepts the password that was hashed and no other
hash_password(password) == [scheme |-> "bcrypt", of |-> password]
verify_password(plain_password, hashed_password) == hashed_password.of = plain_password

\* auth.py 32-39: db.query(User).filter(...).first()
HasEmail(users, email)       == \E k \in 1..Len(users) : users[k].email = email
ByEmail(users, email)        == users[CHOOSE k \in 1..Len(users) : users[k].email = email]
HasUsername(users, username) == \E k \in 1..Len(users) : users[k].username = username

NoUser == [id |-> 0, email |-> <<>>, username |-> <<>>,
           hashed_password |-> hash_password(<<>>), is_active |-> FALSE]

Refused(code, detail) == [code |-> code, detail |-> detail, user |-> NoUser]

\* the user of the token's sub returned whether active or not
get_current_user_NoActiveCheck(users, token) ==
    LET payload == decode_access_token(token)
    IN  IF ~ token.present
        THEN Refused(HTTP_401_UNAUTHORIZED, <<"Not authenticated">>)
        ELSE IF ~ payload.ok
        THEN Refused(HTTP_401_UNAUTHORIZED, <<"Could not validate credentials">>)
        ELSE IF payload.sub = NoSub \/ payload.user_id = NoClaim
        THEN Refused(HTTP_401_UNAUTHORIZED, <<"Could not validate credentials">>)
        ELSE IF ~ HasEmail(users, payload.sub)
        THEN Refused(HTTP_401_UNAUTHORIZED, <<"Could not validate credentials">>)
        ELSE [code |-> HTTP_200_OK, detail |-> <<>>, user |-> ByEmail(users, payload.sub)]

\* auth.py 61-104, behind OAuth2PasswordBearer (401 "Not authenticated" when
\* the request carries no bearer token)
get_current_user(users, token) ==
    LET payload == decode_access_token(token)
    IN  IF ~ token.present
        THEN Refused(HTTP_401_UNAUTHORIZED, <<"Not authenticated">>)
        ELSE IF ~ payload.ok
        THEN Refused(HTTP_401_UNAUTHORIZED, <<"Could not validate credentials">>)
        ELSE IF payload.sub = NoSub \/ payload.user_id = NoClaim
        THEN Refused(HTTP_401_UNAUTHORIZED, <<"Could not validate credentials">>)
        ELSE IF ~ HasEmail(users, payload.sub)
        THEN Refused(HTTP_401_UNAUTHORIZED, <<"Could not validate credentials">>)
        ELSE LET user == ByEmail(users, payload.sub)
             IN  IF ~ user.is_active
                 THEN Refused(HTTP_403_FORBIDDEN, <<"User account is inactive">>)
                 ELSE [code |-> HTTP_200_OK, detail |-> <<>>, user |-> user]

\* auth.py 42-54
authenticate_user(users, email, password) ==
    IF ~ HasEmail(users, email) THEN NoUser
    ELSE IF ~ verify_password(password, ByEmail(users, email).hashed_password) THEN NoUser
    ELSE ByEmail(users, email)

\* auth.py 164-198
login(users, email, password) ==
    LET user == authenticate_user(users, email, password)
    IN  IF user = NoUser
        THEN Response("login", HTTP_401_UNAUTHORIZED, <<"Incorrect email or password">>)
        ELSE IF ~ user.is_active
        THEN Response("login", HTTP_403_FORBIDDEN, <<"User account is inactive">>)
        ELSE [Response("login", HTTP_200_OK, <<>>) EXCEPT
                  !.access_token = create_access_token(user.email, user.id)]

\* the rest of the program during a request of the authentication layer
NoThreads == <<pc, Args, Env, Locals, ModelState, tone, invocations, result,
               settings_key, hpc, request, current_user, db_threads, db_histories,
               generated, posts, commit_fault, prompt_table, calls>>

Login(email, password) ==
    /\ http' = [login(db_users, email, password) EXCEPT
                    !.credentials = <<email, password>>, !.handler = "login"]
    /\ UNCHANGED <<NoThreads, Auth>>

(***************************************************************************)
(* POST /auth/register.  The endpoint is a plain def: FastAPI runs each    *)
(* request in a worker thread with its own session, so that the two        *)
(* queries and the commit of one request interleave with those of another. *)
(***************************************************************************)
UsernameMinLength == 3
UsernameMaxLength == 50
PasswordMinLength == 8

\* schemas.py 25-29
UserCreateValid(b) ==
    /\ Len(b.username) >= UsernameMinLength
    /\ Len(b.username) <= UsernameMaxLength
    /\ Len(b.password) >= PasswordMinLength

RegSlots == {1, 2}

IdleReg == [pc |-> "idle", email |-> <<>>, username |-> <<>>, password |-> <<>>]

\* what a request of slot i is answered with
Registered(i, code, detail) ==
    [Response("register", code, detail) EXCEPT
         !.handler = "register",
         !.credentials = <<regs[i].email, regs[i].username>>,
         !.asked = i]

RegisterReceive(i, body) ==
    /\ regs[i].pc = "idle"
    /\ registrations < MaxRegistrations
    /\ registrations' = registrations + 1
    /\ IF ~ UserCreateValid(body)
       THEN /\ http' = [Response("register", HTTP_422_UNPROCESSABLE_ENTITY,
                                 <<"request validation error">>)
                            EXCEPT !.handler = "register",
                                   !.credentials = <<body.email, body.username>>,
                                   !.asked = i]
            /\ UNCHANGED regs
       ELSE /\ regs' = [regs EXCEPT ![i] = [pc |-> "check_email", email |-> body.email,
                                            username |-> body.username,
                                            password |-> body.password]]
            /\ UNCHANGED http
    /\ UNCHANGED <<NoThreads, db_users, admin_session>>

\* auth.py 129-135
RegisterCheckEmail(i) ==
    /\ regs[i].pc = "check_email"
    /\ IF HasEmail(db_users, regs[i].email)
       THEN /\ http' = Registered(i, HTTP_400_BAD_REQUEST, <<"Email already registered">>)
            /\ regs' = [regs EXCEPT ![i] = IdleReg]
       ELSE /\ regs' = [regs EXCEPT ![i].pc = "check_username"]
            /\ UNCHANGED http
    /\ UNCHANGED <<NoThreads, db_users, registrations, admin_session>>

\* auth.py 137-143
RegisterCheckUsername(i) ==
    /\ regs[i].pc = "check_username"
    /\ IF HasUsername(db_users, regs[i].username)
       THEN /\ http' = Registered(i, HTTP_400_BAD_REQUEST, <<"Username already taken">>)
            /\ regs' = [regs EXCEPT ![i] = IdleReg]
       ELSE /\ regs' = [regs EXCEPT ![i].pc = "commit"]
            /\ UNCHANGED http
    /\ UNCHANGED <<NoThreads, db_users, registrations, admin_session>>

\* auth.py 145-161: the INSERT is refused by the unique indexes of
\* users.email and users.username (IntegrityError), which nothing catches
\* before the general exception handler of main.py
RegisterCommit(i) ==
    /\ regs[i].pc = "commit"
    /\ IF HasEmail(db_users, regs[i].email) \/ HasUsername(db_users, regs[i].username)
       THEN /\ http' = Registered(i, HTTP_500_INTERNAL_SERVER_ERROR,
                                  <<"Internal server error">>)
            /\ UNCHANGED db_users
       ELSE LET new_user == [id |-> NextId(db_users),
                             email |-> regs[i].email,
                             username |-> regs[i].username,
                             hashed_password |-> hash_password(regs[i].password),
                             is_active |-> TRUE]
            IN  /\ db_users' = Append(db_users, new_user)
                /\ http' = [Registered(i, HTTP_201_CREATED, <<>>) EXCEPT
                                !.user_id = new_user.id, !.email = PyStr(new_user.email)]
    /\ regs' = [regs EXCEPT ![i] = IdleReg]
    /\ UNCHANGED <<NoThreads, registrations, admin_session>>

(***************************************************************************)
(* The admin panel: AdminAuth of admin.py and the edit form of UserAdmin.  *)
(***************************************************************************)
\* models.py 8-19: the users table has no is_admin column; nobody is an admin
is_admin(user) == FALSE

\* admin.py 28-69: the value login returns and the token it stores
admin_login(users, email, password) ==
    IF ~ HasEmail(users, email) THEN [ok |-> FALSE, token |-> NoToken]
    ELSE LET user == ByEmail(users, email)
         IN  IF ~ verify_password(password, user.hashed_password)
             THEN [ok |-> FALSE, token |-> NoToken]
             ELSE IF ~ user.is_active
             THEN [ok |-> FALSE, token |-> NoToken]
             ELSE [ok |-> TRUE, token |-> create_access_token(user.email, user.id)]

\* admin.py 76-88
authenticate(session) == session.present /\ decode_access_token(session).ok

AdminLogin(email, password) ==
    /\ LET done == admin_login(db_users, email, password)
       IN  /\ admin_session' = IF done.ok THEN done.token ELSE admin_session
           /\ http' = [Response("admin_login", IF done.ok THEN HTTP_302_FOUND
                                               ELSE HTTP_400_BAD_REQUEST, <<>>)
                           EXCEPT !.handler = "AdminAuth.login",
                                  !.credentials = <<email, password>>,
                                  !.access_token = done.token]
    /\ UNCHANGED <<NoThreads, db_users, regs, registrations>>

\* admin.py 95-125: is_active is a field of the edit form of UserAdmin, which
\* the panel serves to whoever authenticate accepts
AdminSetActive(id, active) ==
    /\ authenticate(admin_session)
    /\ \E k \in 1..Len(db_users) :
           /\ db_users[k].id = id
           /\ db_users' = [db_users EXCEPT ![k].is_active = active]
    /\ http' = [Response("admin_edit", HTTP_200_OK, <<>>) EXCEPT
                    !.handler = "UserAdmin", !.asked = id]
    /\ UNCHANGED <<NoThreads, regs, registrations, admin_session>>

\* admin.py 71-74
AdminLogout ==
    /\ admin_session # NoToken
    /\ admin_session' = NoToken
    /\ http' = [Response("admin_logout", HTTP_200_OK, <<>>) EXCEPT
                    !.handler = "AdminAuth.logout"]
    /\ UNCHANGED <<NoThreads, db_users, regs, registrations>>

(***************************************************************************)
(* Routing.  The routes of the application in the order of their           *)
(* registration (main.py 202-244 over the decorators of the two routers);  *)
(* a path is the sequence of its segments.  Starlette hands a request to   *)
(* the first route whose path pattern and method both match; a path        *)
(* parameter matches any segment ([^/]+) and is converted afterwards.      *)
(***************************************************************************)
S_api       == <<"a", "p", "i">>
S_auth      == <<"a", "u", "t", "h">>
S_tweets    == <<"t", "w", "e", "e", "t", "s">>
S_register  == <<"r", "e", "g", "i", "s", "t", "e", "r">>
S_login     == <<"l", "o", "g", "i", "n">>
S_token     == <<"t", "o", "k", "e", "n">>
S_me        == <<"m", "e">>
S_verify    == <<"v", "e", "r", "i", "f", "y">>
S_generate  == <<"g", "e", "n", "e", "r", "a", "t", "e">>
S_history   == <<"h", "i", "s", "t", "o", "r", "y">>
S_analytics == <<"a", "n", "a", "l", "y", "t", "i", "c", "s">>
S_stats     == <<"s", "t", "a", "t", "s">>
S_health    == <<"h", "e", "a", "l", "t", "h">>
\* the path parameter {thread_id}
Param       == <<"{", "}">>

Route(method, path, endpoint, protected) ==
    [method |-> method, path |-> path, endpoint |-> endpoint, protected |-> protected]

\* routers/auth.py 118-260, routers/tweets.py 35-337, main.py 220-244
Routes ==
    << Route("POST",   <<S_api, S_auth, S_register>>,            "register",               FALSE),
       Route("POST",   <<S_api, S_auth, S_login>>,               "login",                  FALSE),
       Route("POST",   <<S_api, S_auth, S_token>>,               "login_for_access_token", FALSE),
       Route("GET",    <<S_api, S_auth, S_me>>,                  "get_me",                 TRUE),
       Route("GET",    <<S_api, S_auth, S_verify>>,              "verify_token",           TRUE),
       Route("POST",   <<S_api, S_tweets, S_generate>>,          "generate_tweets",        TRUE),
       Route("GET",    <<S_api, S_tweets, S_history>>,           "get_user_tweet_history", TRUE),
       Route("GET",    <<S_api, S_tweets, Param>>,               "get_tweet_thread",       TRUE),
       Route("DELETE", <<S_api, S_tweets, Param>>,               "delete_tweet_thread",    TRUE),
       Route("GET",    <<S_api, S_tweets, S_analytics, S_stats>>, "get_user_stats",        TRUE),
       Route("GET",    <<S_api, S_tweets, S_health>>,            "health_check",           FALSE),
       Route("GET",    <<>>,                                     "root",                   FALSE),
       Route("GET",    <<S_api, S_health>>,                      "api_health",             FALSE) >>

\* the compiled path regex of a route against a request path
path_matches(route, path) ==
    /\ Len(route.path) = Len(path)
    /\ \A k \in 1..Len(path) :
           IF route.path[k] = Param THEN path[k] # <<>> ELSE route.path[k] = path[k]

\* Router.__call__: the first full match; 0 when no route matches fully
first_match(routes, method, path) ==
    IF \E k \in 1..Len(routes) : path_matches(routes[k], path) /\ routes[k].method = method
    THEN CHOOSE k \in 1..Len(routes) :
             /\ path_matches(routes[k], path) /\ routes[k].method = method
             /\ \A j \in 1..(k - 1) :
                    ~ (path_matches(routes[j], path) /\ routes[j].method = method)
    ELSE 0

\* the int a path parameter converts to; only digits convert
RECURSIVE digits_value(_)
digits_value(cs) ==
    IF cs = <<>> THEN 0
    ELSE 10 * digits_value(SubSeq(cs, 1, Len(cs) - 1))
         + ((CHOOSE d \in 1..10 : DigitChars[d] = cs[Len(cs)]) - 1)

is_int(cs) == cs # <<>> /\ \A k \in 1..Len(cs) : cs[k] \in Digits

DefaultPage     == 1
DefaultPageSize == 10

\* the body of a GET endpoint, run for the authenticated user
run_endpoint(endpoint, user, path) ==
    CASE endpoint = "health_check" ->
             Response("health", HTTP_200_OK, <<"healthy">>)
      [] endpoint = "api_health" ->
             Response("api_health", HTTP_200_OK, <<"healthy">>)
      [] endpoint = "root" ->
             Response("root", HTTP_200_OK, <<"Welcome to Tweet Generator API">>)
      [] endpoint \in {"get_me", "verify_token"} ->
             [Response("me", HTTP_200_OK, <<>>) EXCEPT
                  !.user_id = user.id, !.email = PyStr(user.email)]
      [] endpoint = "get_tweet_thread" ->
             get_tweet_thread(db_threads, user.id, digits_value(path[3]))
      [] endpoint = "get_user_tweet_history" ->
             get_user_tweet_history(db_threads, user.id, DefaultPage, DefaultPageSize)
      [] endpoint = "get_user_stats" ->
             [Response("stats", HTTP_200_OK, <<>>) EXCEPT
                  !.stats = get_user_stats(db_threads, db_histories, user.id)]

\* a GET request through the router: the route is chosen, its dependencies
\* are solved (the security dependency first, then the path parameter), and
\* the endpoint runs
dispatch(routes, users, path, token) ==
    LET k == first_match(routes, "GET", path)
    IN  IF k = 0
        THEN IF \E j \in 1..Len(routes) : path_matches(routes[j], path)
             THEN Response("request", HTTP_405_METHOD_NOT_ALLOWED, <<"Method Not Allowed">>)
             ELSE Response("request", HTTP_404_NOT_FOUND, <<"Not Found">>)
        ELSE LET route == routes[k]
                 gate  == IF route.protected THEN get_current_user(users, token)
                          ELSE [code |-> HTTP_200_OK, detail |-> <<>>, user |-> NoUser]
             IN  IF gate.code # HTTP_200_OK
                 THEN [Response("request", gate.code, gate.detail) EXCEPT
                           !.handler = route.endpoint]
                 ELSE IF Param \in {route.path[j] : j \in 1..Len(route.path)}
                         /\ ~ is_int(path[3])
                 THEN [Response("request", HTTP_422_UNPROCESSABLE_ENTITY,
                                <<"request validation error">>) EXCEPT
                           !.handler = route.endpoint, !.user = gate.user.id]
                 ELSE [run_endpoint(route.endpoint, gate.user, path) EXCEPT
                           !.handler = route.endpoint, !.user = gate.user.id,
                           !.ran = TRUE]

Get(path, token) ==
    /\ http' = [dispatch(Routes, db_users, path, token) EXCEPT
                    !.credentials = <<token>>, !.path = path]
    /\ UNCHANGED <<NoThreads, Auth>>

(***************************************************************************)
(* Requests of the authentication layer: two emails, two usernames and two *)
(* passwords, a password the schema refuses, and tokens with every defect. *)
(***************************************************************************)
Emails    == { <<"a", "@", "x">>, <<"b", "@", "x">> }
Usernames == { <<"a", "n", "n">>, <<"b", "o", "b">> }
Password1 == <<"p", "a", "s", "s", "w", "o", "r", "d">>
Password2 == <<"l", "e", "t", "m", "e", "i", "n", "1">>
ShortPassword == <<"s", "h", "o", "r", "t">>

RegisterBodies ==
    { [email |-> e, username |-> u, password |-> Password1] : e \in Emails, u \in Usernames }
    \cup { [email |-> CHOOSE e \in Emails : TRUE, username |-> CHOOSE u \in Usernames : TRUE,
            password |-> ShortPassword] }

\* a token in order, one with a bad signature, one expired
TokenStates == { <<TRUE, FALSE>>, <<FALSE, FALSE>>, <<TRUE, TRUE>> }

Tokens ==
    { [present |-> TRUE, signed |-> st[1], expired |-> st[2], sub |-> sub, user_id |-> id] :
          st \in TokenStates, sub \in Emails \cup {NoSub}, id \in {NoClaim, 1} }
    \cup {NoToken}

\* no token, and the token login issues to the first user
FirstEmail   == <<"a", "@", "x">>
IssuedTokens == { NoToken, create_access_token(FirstEmail, 1) }

GetPaths ==
    { <<S_api, S_tweets, S_health>>,
      <<S_api, S_health>>,
      <<S_api, S_tweets, S_history>>,
      <<S_api, S_tweets, <<"1">>>>,
      <<S_api, S_tweets, S_analytics, S_stats>>,
      <<S_api, S_tweets, S_generate, S_health>>,
      <<S_api, S_auth, S_login>> }

InitAuth ==
    /\ pc = "idle"
    /\ topic = PyNone /\ tone_arg = PyNone /\ tone = PyNone
    /\ max_tweets = 0 /\ add_numbering = FALSE
    /\ fault = "none" /\ completion = <<>>
    /\ invocations = 0 /\ model_inits = 0
    /\ prompt_template = <<>> /\ messages = <<>> /\ response_text = <<>>
    /\ parsed = Returned(PyNone) /\ tweets = PyNone /\ valid_tweets = <<>>
    /\ result = Pending
    /\ os_environ = EnvKey
    /\ settings_key = DefaultSettingsKey
    /\ hpc = "idle"
    /\ request = NoRequest
    /\ current_user = 0
    /\ http = NoResponse
    /\ db_threads = <<>>
    /\ db_histories = <<>>
    /\ generated = <<>>
    /\ posts = 0
    /\ commit_fault = "none"
    /\ db_users = <<>>
    /\ regs = [i \in RegSlots |-> IdleReg]
    /\ registrations = 0
    /\ admin_session = NoToken
    /\ prompt_table = PromptTable
    /\ calls = <<>>

\* registrations served one at a time, among logins, requests with tokens
\* and the admin panel
NextAuth ==
    \/ \E body \in RegisterBodies : RegisterReceive(1, body)
    \/ RegisterCheckEmail(1)
    \/ RegisterCheckUsername(1)
    \/ RegisterCommit(1)
    \/ \E email \in Emails, password \in {Password1, Password2} : Login(email, password)
    \/ \E token \in Tokens : Get(<<S_api, S_auth, S_me>>, token)
    \/ \E path \in GetPaths, token \in IssuedTokens : Get(path, token)
    \/ \E email \in Emails, password \in {Password1, Password2} : AdminLogin(email, password)
    \/ \E id \in 1..Cardinality(Emails), active \in BOOLEAN : AdminSetActive(id, active)
    \/ AdminLogout

SpecAuth == InitAuth /\ [][NextAuth]_vars

\* registrations served concurrently, each in its worker thread
NextRegister ==
    \/ \E i \in RegSlots, body \in RegisterBodies : RegisterReceive(i, body)
    \/ \E i \in RegSlots : RegisterCheckEmail(i)
    \/ \E i \in RegSlots : RegisterCheckUsername(i)
    \/ \E i \in RegSlots : RegisterCommit(i)

SpecRegister == InitAuth /\ [][NextRegister]_vars

(***************************************************************************)
(* Properties.                                                             *)
(***************************************************************************)
CallReturned == pc = "done" /\ result.status = "returned"

StartsWith(s, p) == Len(p) <= Len(s) /\ SubSeq(s, 1, Len(p)) = p

\* the literal "[i/total] "
NumberLiteral(i, total) ==
    <<"[">> \o str_int(i) \o <<"/">> \o str_int(total) \o <<"]", " ">>

\* C1: every element of the tweets list of a successful call has length at most 280,
\* whatever the completion, the add_numbering flag and max_tweets in [1, 20].
C1_EveryTweetWithinLimit ==
    CallReturned =>
        \A i \in 1..Len(result.tweets) : Len(result.tweets[i].val) <= 280

\* a numbered thread was returned in which a tweet the model made longer than 280
\* characters sits at exactly 280
C1_Witness ==
    /\ CallReturned
    /\ add_numbering /\ max_tweets \in 1..20
    /\ \E i \in 1..Len(result.tweets) :
          /\ Len(tweets.val[i].val) > 280
          /\ Len(result.tweets[i].val) = 280
          /\ StartsWith(result.tweets[i].val, <<"[">>)

\* C2: on success tweet_count is the length of the tweets list and is at most the
\* max_tweets asked for, however many items the completion held.
C2_CountMatchesAndCapped ==
    CallReturned =>
        /\ result.tweet_count = Len(result.tweets)
        /\ result.tweet_count <= max_tweets

\* the completion held more items than were asked for
C2_Witness ==
    /\ CallReturned
    /\ Len(tweets.val) > max_tweets
    /\ result.tweet_count = max_tweets

\* C3: the length clamp replaces a tweet longer than 280 by its first 277 characters
\* and "...", 280 characters in all, leaves a tweet of at most 280 unchanged, and keeps
\* the number and the order of the tweets.  (pc = "number": the clamp has just run,
\* tweets is the parsed list and valid_tweets the clamped one.)
C3_ClampStep ==
    pc = "number" =>
        /\ Len(valid_tweets) = Len(tweets.val)
        /\ \A i \in 1..Len(valid_tweets) :
              IF Len(tweets.val[i].val) > 280
              THEN /\ valid_tweets[i].val = SubSeq(tweets.val[i].val, 1, 277) \o <<".", ".", ".">>
                   /\ Len(valid_tweets[i].val) = 280
              ELSE valid_tweets[i] = tweets.val[i]

\* one tweet was cut and another, of exactly 280 characters, was kept
C3_Witness ==
    /\ pc = "number"
    /\ \E i \in 1..Len(valid_tweets) :
          Len(tweets.val[i].val) > 280 /\ Len(valid_tweets[i].val) = 280
    /\ \E j \in 1..Len(valid_tweets) :
          Len(tweets.val[j].val) = 280 /\ valid_tweets[j] = tweets.val[j]

\* C4: the numbering step runs iff add_numbering is true and the clamped list has more
\* than one element; when it runs the tweet at position i carries the prefix "[i/total] ",
\* total being the length of the clamped list; otherwise the tweets are the clamped
\* tweets, without prefix.
C4_NumberingStep ==
    [][ (pc = "number" /\ pc' = "cap") =>
            IF add_numbering /\ Len(valid_tweets) > 1
            THEN /\ Len(valid_tweets') = Len(valid_tweets)
                 /\ \A i \in 1..Len(valid_tweets) :
                       StartsWith(valid_tweets'[i].val, NumberLiteral(i, Len(valid_tweets)))
            ELSE valid_tweets' = valid_tweets ]_vars

\* a thread of ten tweets was numbered
C4_Witness ==
    /\ pc = "cap"
    /\ add_numbering
    /\ Len(valid_tweets) >= 10
    /\ StartsWith(valid_tweets[10].val, <<"[", "1", "0", "/">>)

\* C5: when prefix + tweet would exceed 280 the clamped body is cut to its first
\* 280 - len(prefix) - 3 characters, "..." is appended and the prefix prepended, 280
\* characters in all; otherwise the body is kept whole.  A tweet the model made longer
\* than 280 ends as prefix + its first 277 - len(prefix) characters + "...".
C5_NumberingTrim ==
    [][ (pc = "number" /\ pc' = "cap" /\ add_numbering /\ Len(valid_tweets) > 1) =>
            \A i \in 1..Len(valid_tweets) :
                LET prefix == NumberLiteral(i, Len(valid_tweets))
                    body   == valid_tweets[i].val
                    orig   == tweets.val[i].val
                    out    == valid_tweets'[i].val
                IN  /\ IF Len(prefix) + Len(body) > 280
                       THEN /\ out = prefix \o SubSeq(body, 1, 280 - Len(prefix) - 3)
                                            \o <<".", ".", ".">>
                            /\ Len(out) = 280
                       ELSE out = prefix \o body
                    /\ Len(orig) > 280 =>
                          out = prefix \o SubSeq(orig, 1, 277 - Len(prefix))
                                       \o <<".", ".", ".">> ]_vars

\* a numbered thread holds a tweet cut twice, a tweet cut by the numbering only and a
\* tweet that kept its whole body
C5_Witness ==
    /\ pc = "cap"
    /\ add_numbering /\ Len(valid_tweets) > 1
    /\ \E i \in 1..Len(valid_tweets) :
          Len(tweets.val[i].val) > 280 /\ Len(valid_tweets[i].val) = 280
    /\ \E j \in 1..Len(valid_tweets) :
          /\ Len(tweets.val[j].val) \in 272..280
          /\ Len(valid_tweets[j].val) = 280
          /\ valid_tweets[j].val[280] = "."
    /\ \E k \in 1..Len(valid_tweets) :
          /\ Len(tweets.val[k].val) \in 272..274
          /\ valid_tweets[k].val[Len(valid_tweets[k].val)] # "."

\* C6: a list of more than max_tweets elements is cut to its first max_tweets; the
\* prefixes are not recomputed, so n > max_tweets items with numbering on give exactly
\* max_tweets tweets prefixed "[1/n] " .. "[max_tweets/n] ".
C6_CapStep ==
    [][ (pc = "cap" /\ pc' = "done") =>
            /\ IF Len(valid_tweets) > max_tweets
               THEN /\ Len(result'.tweets) = max_tweets
                    /\ result'.tweets = SubSeq(valid_tweets, 1, max_tweets)
               ELSE result'.tweets = valid_tweets
            /\ (add_numbering /\ Len(tweets.val) > max_tweets) =>
                  /\ Len(result'.tweets) = max_tweets
                  /\ \A i \in 1..max_tweets :
                        StartsWith(result'.tweets[i].val, NumberLiteral(i, Len(tweets.val))) ]_vars

\* ten items, five asked for, numbering on
C6_Witness ==
    /\ CallReturned
    /\ add_numbering
    /\ Len(tweets.val) = 10 /\ max_tweets = 5
    /\ Len(result.tweets) = 5
    /\ StartsWith(result.tweets[5].val, <<"[", "5", "/", "1", "0", "]", " ">>)

FiveTones == {T_professional, T_casual, T_humorous, T_engaging, T_educational}

HasSlot(tpl, name) == \E k \in 1..Len(tpl) : tpl[k] = Slot(name)

\* the tone has been resolved: the call is past line 253
ToneResolved ==
    /\ pc \notin {"validate", "tone"}
    /\ ~ (pc = "done" /\ result.exc = "ValueError")

\* C7: the tone is lower-cased; one of the five known tones selects its template, any
\* other string, the empty string and None select the engaging template, and no error
\* is raised for it; the tone of the result is the tone used; every template holds the
\* {topic} and {tweet_count} placeholders.
C7_ToneResolution ==
    /\ ToneResolved =>
          LET known == Truthy(tone_arg) /\ lower(tone_arg.val) \in FiveTones
              used  == IF known THEN lower(tone_arg.val) ELSE T_engaging
          IN  /\ tone = PyStr(used)
              /\ prompt_template = TWEET_PROMPTS(used)
              /\ HasSlot(prompt_template, "topic")
              /\ HasSlot(prompt_template, "tweet_count")
              /\ tone_arg = PyStr(<<"C", "A", "S", "U", "A", "L">>) => tone = PyStr(T_casual)
              /\ tone_arg = PyStr(<<"c", "a", "s", "u", "a", "l", " ">>) => tone = PyStr(T_engaging)
              /\ CallReturned => result.tone = PyStr(used)
    /\ \A k \in FiveTones :
          HasSlot(TWEET_PROMPTS(k), "topic") /\ HasSlot(TWEET_PROMPTS(k), "tweet_count")
    /\ (pc = "done" /\ fault = "none" /\ ~ TopicTooShort(topic) /\ max_tweets \in 1..20
          /\ ~ parse_tweet_response(completion).raised)
          => result.status = "returned"

\* a call given a tone in capitals returned with that tone lower-cased
C7_Witness ==
    /\ CallReturned
    /\ tone_arg = PyStr(<<"C", "A", "S", "U", "A", "L">>)
    /\ result.tone = PyStr(T_casual)

\* a call given None as tone returned with the engaging tone
C7_WitnessFallback ==
    /\ CallReturned
    /\ tone_arg = PyNone
    /\ result.tone = PyStr(T_engaging)

(***************************************************************************)
(* The parser: the first "[" and the last "]" of a text, found directly.   *)
(***************************************************************************)
IsList(r) == r.ok /\ r.val.type = "list"

HasSpan(t) ==
    \E a \in 1..Len(t) : \E b \in (a+1)..Len(t) : t[a] = "[" /\ t[b] = "]"

FirstOpen(t) == CHOOSE a \in 1..Len(t) : t[a] = "[" /\ \A k \in 1..(a-1) : t[k] # "["
LastClose(t) == CHOOSE b \in 1..Len(t) : t[b] = "]" /\ \A k \in (b+1)..Len(t) : t[k] # "]"

Span(t) == SubSeq(t, FirstOpen(t), LastClose(t))

SpanIsList(t) == HasSpan(t) /\ IsList(json_loads(Span(t)))

ParseDone == pc # "parse"

\* C8: two attempts in order, the first success wins: the whole text, if it is JSON
\* and a list, is returned as it is; otherwise the text from the first "[" to the last
\* "]" is returned if it parses to a list.  Prose around one array returns the array.
C8_TwoAttempts ==
    ParseDone =>
        IF IsList(json_loads(response_text))
        THEN parsed = Returned(json_loads(response_text).val)
        ELSE SpanIsList(response_text) =>
                parsed = Returned(json_loads(Span(response_text)).val)

\* prose before and after one array: the second attempt returned the array
C8_Witness ==
    /\ ParseDone
    /\ ~ parsed.raised
    /\ ~ json_loads(response_text).ok
    /\ FirstOpen(response_text) > 1
    /\ LastClose(response_text) < Len(response_text)
    /\ response_text[1] = "a" /\ response_text[Len(response_text)] = "a"

\* some part of the text is a JSON array all of whose elements are strings
StringArrayLocatable(t) ==
    \E a \in 1..Len(t) : \E b \in a..Len(t) :
        LET r == json_loads(SubSeq(t, a, b))
        IN  IsList(r) /\ \A k \in 1..Len(r.val.val) : r.val.val[k].type = "str"

\* C9 as stated: the parser fails whenever no JSON array of strings can be located
C9_FailsWithoutStringArray ==
    ParseDone => (~ StringArrayLocatable(response_text) => parsed.raised)

\* C9, amended: the parser fails, with "Could not parse tweets from LLM response",
\* exactly when neither the whole text nor the text from the first "[" to the last "]"
\* parses to a JSON list, whatever the elements of the list; it never returns a value
\* that is not a list and never returns on a text without a "[" ... "]" pair.
C9_FailsExactlyWithoutList ==
    ParseDone =>
        /\ parsed.raised <=>
              (~ IsList(json_loads(response_text)) /\ ~ SpanIsList(response_text))
        /\ parsed.raised => parsed.msg = "Could not parse tweets from LLM response"
        /\ ~ parsed.raised => (parsed.val.type = "list" /\ HasSpan(response_text))

\* the parser failed on a text that holds brackets, and returned a list of non-strings
C9_Witness ==
    /\ ParseDone
    /\ parsed.raised
    /\ HasSpan(response_text)

C9_WitnessNonStrings ==
    /\ ParseDone
    /\ ~ parsed.raised
    /\ Len(parsed.val.val) = 1
    /\ parsed.val.val[1].type = "int"

\* C10: the extraction runs from the first "[" to the last "]": when the whole text is
\* not a list, that one substring is the only candidate, and a text made of two arrays
\* with something between them returns neither of them.
C10_GreedySpan ==
    ParseDone =>
        /\ (~ IsList(json_loads(response_text)) /\ ~ parsed.raised) =>
              (HasSpan(response_text)
                 /\ parsed.val = json_loads(Span(response_text)).val)
        /\ HasSpan(response_text) =>
              \A i \in FirstOpen(response_text)..LastClose(response_text) :
              \A j \in (i+2)..LastClose(response_text) :
                  ( /\ IsList(json_loads(SubSeq(response_text, FirstOpen(response_text), i)))
                    /\ IsList(json_loads(SubSeq(response_text, j, LastClose(response_text)))) )
                  => parsed.raised

\* two arrays with prose between them: the parser failed
C10_Witness ==
    /\ ParseDone
    /\ parsed.raised
    /\ response_text = <<"[", "]", "a", "[", "]">>

(***************************************************************************)
(* Input validation and the errors that leave the call.                    *)
(***************************************************************************)
TopicError == <<"Topic must be at least 10 characters long">>
CountError == <<"max_tweets must be between 1 and 20">>

\* the topic is None, empty, or shorter than 10 once its blanks are trimmed
TopicInvalid ==
    \/ topic.type = "None"
    \/ Len(topic.val) = 0
    \/ Len(strip(topic.val)) < 10

CountInvalid == max_tweets < 1 \/ max_tweets > 20

ModelUntouched == invocations = 0 /\ model_inits = 0

\* C11: a call whose topic is None, empty or shorter than 10 characters once
\* trimmed never leaves validation for any later step, ends with ValueError
\* "Topic must be at least 10 characters long" and neither builds nor invokes
\* the model; this also when max_tweets is out of range (the topic error wins).
C11_TopicCheckedFirst ==
    TopicInvalid =>
        /\ pc \in {"validate", "done"}
        /\ ModelUntouched
        /\ pc = "done" => result = Raise("ValueError", TopicError)

\* a blank-padded topic of nine characters together with a count of 21
C11_Witness ==
    /\ pc = "done"
    /\ topic.type = "str" /\ Len(topic.val) >= 10 /\ Len(strip(topic.val)) = 9
    /\ max_tweets = 21
    /\ result.exc = "ValueError" /\ result.msg = TopicError
    /\ ModelUntouched

\* C12: with a valid topic, a max_tweets below 1 or above 20 ends the call in
\* validation with ValueError "max_tweets must be between 1 and 20", the model
\* neither built nor invoked; with max_tweets 1 or 20 the call passes
\* validation and goes on to build the model.
C12_CountChecked ==
    ~ TopicInvalid =>
        /\ CountInvalid =>
              /\ pc \in {"validate", "done"}
              /\ ModelUntouched
              /\ pc = "done" => result = Raise("ValueError", CountError)
        /\ (max_tweets \in {1, 20} /\ pc = "done") =>
              /\ model_inits = 1
              /\ result.msg # CountError

C12_Witness ==
    /\ pc = "done"
    /\ ~ TopicInvalid
    /\ max_tweets = 21
    /\ result.exc = "ValueError" /\ result.msg = CountError
    /\ ModelUntouched

\* the upper end of the range passes and the call returns tweets
C12_WitnessBoundary ==
    /\ CallReturned
    /\ max_tweets = 20
    /\ model_inits = 1 /\ invocations = 1

ValidationPassed == ~ TopicInvalid /\ ~ CountInvalid

IsGenerationFailure(r) ==
    /\ r.status = "raised"
    /\ r.exc = "Exception"
    /\ Len(r.msg) = 2
    /\ r.msg[1] = "Failed to generate tweets: "

\* C13: once validation has passed, every error that leaves the call is a
\* GenerationFailure (Exception "Failed to generate tweets: <cause>"), also
\* when the model client could not be constructed.
C13_OnlyGenerationFailure ==
    (pc = "done" /\ ValidationPassed /\ result.status = "raised")
        => IsGenerationFailure(result)

(***************************************************************************)
(* The HTTP layer over the core.                                           *)
(***************************************************************************)
Answered == http.op = "generate" /\ http.core.status # "pending"

IsValidationError(r) ==
    /\ r.status = "raised"
    /\ r.exc = "ValueError"
    /\ r.msg \in {TopicError, CountError}

\* C15: POST /tweets/generate answers a validation error of the core with 400,
\* a GenerationFailure with 500 and a returned result with 201 and that
\* result's tweets, tweet_count and topic; it answers 400 for nothing but a
\* validation error of the caller's input.
C15_OutcomeMapping ==
    Answered =>
        /\ IsValidationError(http.core) => http.code = 400
        /\ IsGenerationFailure(http.core) => http.code = 500
        /\ http.core.status = "returned" =>
              /\ http.code = 201
              /\ http.tweets = http.core.tweets
              /\ http.tweet_count = http.core.tweet_count
              /\ http.topic = http.core.topic
        /\ http.code = 400 => IsValidationError(http.core)

(***************************************************************************)
(* The call end to end.                                                    *)
(***************************************************************************)
\* the clamp, the numbering and the cap written out on texts
ExpectedClamp(t) ==
    IF Len(t) <= 280 THEN t ELSE SubSeq(t, 1, 277) \o <<".", ".", ".">>

ExpectedNumbered(t, i, n) ==
    LET p == NumberLiteral(i, n)
    IN  IF Len(p) + Len(t) <= 280 THEN p \o t
        ELSE p \o SubSeq(t, 1, 280 - Len(p) - 3) \o <<".", ".", ".">>

ExpectedTweets(L, flag, n) ==
    LET clamped  == [i \in 1..Len(L) |-> ExpectedClamp(L[i].val)]
        numbered == IF flag /\ Len(L) > 1
                    THEN [i \in 1..Len(L) |-> ExpectedNumbered(clamped[i], i, Len(L))]
                    ELSE clamped
    IN  [i \in 1..Min(n, Len(L)) |-> PyStr(numbered[i])]

AllShort(L) ==
    \A i \in 1..Len(L) :
        L[i].type = "str" /\ Len(L[i].val) + Len(NumberLiteral(i, Len(L))) <= 280

\* C16: a call that returns has invoked the model once and returns the topic
\* it was given, unchanged, and the list parsed from the model's completion,
\* clamped, then numbered, then capped; when the completion is an array of n
\* short strings, 2 <= n <= max_tweets, and add_numbering is true, tweet_count
\* is n and tweet i is "[i/n] " followed by the i-th string.
C16_EndToEnd ==
    CallReturned =>
        /\ invocations = 1
        /\ response_text = completion
        /\ tweets = parse_tweet_response(completion).val
        /\ result.topic = topic
        /\ IsStrList(tweets.val) =>
              result.tweets = ExpectedTweets(tweets.val, add_numbering, max_tweets)
        /\ (AllShort(tweets.val) /\ add_numbering
             /\ 2 <= Len(tweets.val) /\ Len(tweets.val) <= max_tweets) =>
              /\ result.tweet_count = Len(tweets.val)
              /\ \A i \in 1..Len(tweets.val) :
                    result.tweets[i].val =
                        NumberLiteral(i, Len(tweets.val)) \o tweets.val[i].val

\* the three tweets of the stub, numbered [1/3] .. [3/3]
C16_Witness ==
    /\ CallReturned
    /\ add_numbering
    /\ max_tweets = 5
    /\ result.tweet_count = 3
    /\ result.tweets[1].val = <<"[", "1", "/", "3", "]", " ", "T", "w", "e", "e", "t", " ",
                                 "a", "b", "o", "u", "t", " ", "A", "I">>
    /\ result.tweets[3].val = <<"[", "3", "/", "3", "]", " ", "F", "i", "n", "a", "l", " ",
                                 "t", "h", "o", "u", "g", "h", "t">>
    /\ result.topic = BlankPaddedTopic

\* C17: the clamp/number/cap transform applied again to the list a call
\* returned, with the same add_numbering and max_tweets, gives that list back
\* whenever the second application numbers nothing (add_numbering false, or
\* fewer than two tweets); so with add_numbering false it is idempotent.
C17_EnforceIdempotent ==
    CallReturned =>
        /\ result.tweets = Enforce(tweets.val, add_numbering, max_tweets)
        /\ (~ add_numbering \/ Len(result.tweets) <= 1) =>
              /\ ~ EnforceRaises(result.tweets, add_numbering, max_tweets)
              /\ Enforce(result.tweets, add_numbering, max_tweets) = result.tweets

\* the first application has both trimmed a tweet and dropped tweets
C17_Witness ==
    /\ CallReturned
    /\ ~ add_numbering
    /\ Len(tweets.val) > max_tweets
    /\ \E i \in 1..max_tweets : Len(tweets.val[i].val) > 280
    /\ result.tweets # tweets.val

StepOrder == <<"validate", "tone", "model", "invoke", "parse", "clamp", "number", "cap", "done">>

Rank(p) == CHOOSE k \in 1..Len(StepOrder) : StepOrder[k] = p

ClientBuilt == fault \notin {"init", "init_value_error"}

\* C18 as stated: every call that passes validation has, when it ends, invoked
\* the model exactly once.
C18_ExactlyOnce ==
    (pc = "done" /\ ValidationPassed) => invocations = 1

\* what holds of the invocation count in every state
InvokedAtMostOnce ==
    /\ invocations <= 1
    /\ (pc = "done" /\ ValidationPassed /\ ClientBuilt) => invocations = 1
    /\ (pc = "done" /\ ValidationPassed /\ ~ ClientBuilt) =>
          (invocations = 0 /\ result.status = "raised")
    /\ (pc = "done" /\ ValidationPassed /\ (fault = "invoke" \/ parsed.raised)) =>
          (invocations = 1 /\ result.status = "raised")

\* C18, amended: a call that passes validation invokes the model at most once,
\* exactly once when the model client could be built and not at all when it
\* could not; after a failed model call or a parse failure the call has ended
\* in an error with that one invocation; every step moves to the next of
\* validate, resolve tone, build model, invoke, parse, clamp, number, cap,
\* return, or ends the call, and nothing happens once the call has ended.
C18_AtMostOnceInOrder ==
    [][ /\ InvokedAtMostOnce'
        /\ pc' # pc => (Rank(pc') = Rank(pc) + 1 \/ pc' = "done")
        /\ invocations' # invocations =>
              (pc = "invoke" /\ invocations = 0 /\ invocations' = 1)
        /\ pc = "done" => UNCHANGED vars ]_vars

\* the model call failed and the call ended with its single invocation
C18_Witness ==
    /\ pc = "done"
    /\ ValidationPassed
    /\ fault = "invoke"
    /\ invocations = 1
    /\ IsGenerationFailure(result)

\* the parse failed after the single invocation
C18_WitnessParse ==
    /\ pc = "done"
    /\ parsed.raised
    /\ invocations = 1
    /\ result.status = "raised"

(***************************************************************************)
(* Concurrent calls.                                                       *)
(***************************************************************************)
\* every call that has ended has the result, and its client the key, of the
\* same call run alone
SameAsAlone ==
    \A i \in Callers :
        calls[i].pc = "done" =>
            LET alone == RunAlone(calls[i].args, calls[i].env0, settings_key)
            IN  /\ calls[i].result = alone.result
                /\ calls[i].client_key = alone.client_key

\* C19 as stated: no step of a call writes process-wide state (the prompt
\* table and the process environment stay as they are), and every call ends
\* as it would alone.
C19_NoSharedMutableState ==
    /\ [][prompt_table' = prompt_table /\ os_environ' = os_environ]_vars
    /\ []SameAsAlone

\* C19, amended: no step of a call writes the prompt table; the process
\* environment is written, by get_chat_model, only to put the key of the
\* settings where the environment held none; and in every interleaving every
\* call ends with the result, and the client key, it has when run alone.
C19_InterleavingIndependent ==
    /\ [][ /\ prompt_table' = prompt_table
           /\ os_environ' # os_environ =>
                 (~ Truthy(os_environ) /\ Truthy(settings_key)
                  /\ os_environ' = settings_key) ]_vars
    /\ []SameAsAlone

\* two calls both found the environment without a key and both wrote it,
\* and both have ended
C19_Witness ==
    /\ \A i \in Callers : calls[i].pc = "done" /\ calls[i].wrote_key
    /\ \E i \in Callers : calls[i].result.status = "returned"
    /\ calls[1].args # calls[2].args
    /\ os_environ = settings_key

(***************************************************************************)
(* Persistence.                                                            *)
(***************************************************************************)
\* C20: every row of tweet_threads holds, as thread_content, the text of a
\* JSON array and, as tweet_count, the number of its elements; and GET
\* /tweets/{thread_id} by the owner of the row answers 200 with the list that
\* the generation which wrote the row returned, element for element.
C20_RoundTrip ==
    \A k \in 1..Len(db_threads) :
        LET row    == db_threads[k]
            loaded == json_loads(row.thread_content)
            got    == get_tweet_thread(db_threads, row.user_id, row.id)
        IN  /\ IsList(loaded)
            /\ row.tweet_count = Len(loaded.val.val)
            /\ got.code = 200
            /\ got.tweets = generated[row.id]

(***************************************************************************)
(* The stored threads.                                                     *)
(***************************************************************************)
\* the call of generate_tweet_thread being served fails: its arguments are
\* refused, the model fails, or the completion is refused by the parser
CoreFailed ==
    \/ result.status = "raised"
    \/ TopicInvalid \/ CountInvalid
    \/ fault # "none"
    \/ parsed.raised

\* C21: while POST /tweets/generate serves a request whose call of
\* generate_tweet_thread fails (validation error, model failure or parse
\* failure), and when it answers that request, the rows of tweet_threads stay
\* as they were: no row is created and no existing row changes.
C21_NoThreadOnFailure ==
    [][(hpc = "core" /\ (hpc' = "core" \/ CoreFailed)) => db_threads' = db_threads]_vars

\* a failed generation answered while the table holds a row
C21_Witness ==
    /\ Answered
    /\ http.core.status = "raised"
    /\ http.code = 500
    /\ Len(db_threads) = 1
    /\ posts = 2

\* the same after a validation error of the core
C21_WitnessValidation ==
    /\ Answered
    /\ IsValidationError(http.core)
    /\ http.code = 400
    /\ Len(db_threads) = 1

\* the failed_generations statistic of a user
failed_generations(user) == get_user_stats(db_threads, db_histories, user).failed_generations

\* C22: the step in which POST /tweets/generate answers 500 saves a
\* TweetHistory record with status "failed" and the user's id, so that the
\* failed_generations statistic of that user is one more than before.
C22_FailedHistorySaved ==
    [][(hpc = "core" /\ hpc' = "idle" /\ http'.code = HTTP_500_INTERNAL_SERVER_ERROR) =>
           /\ failed_generations(current_user)' = failed_generations(current_user) + 1
           /\ \E k \in 1..Len(db_histories') :
                  /\ db_histories'[k].status = "failed"
                  /\ db_histories'[k].user_id = current_user]_vars

\* C23: GET /tweets/{thread_id} answers 404 for an id no row has, 403 for a
\* row of another user, and 200 only for a row whose user_id is the id of the
\* authenticated user; a response that is not 200 carries no tweets and no
\* topic, so no user receives the content of another user's thread.
C23_OwnerOnly ==
    http.op = "get" =>
        /\ ~ HasId(db_threads, http.asked) => http.code = HTTP_404_NOT_FOUND
        /\ (HasId(db_threads, http.asked)
              /\ ById(db_threads, http.asked).user_id # http.user)
               => http.code = HTTP_403_FORBIDDEN
        /\ http.code = HTTP_200_OK =>
              /\ HasId(db_threads, http.asked)
              /\ ById(db_threads, http.asked).user_id = http.user
              /\ http.user_id = http.user
              /\ http.thread_id = http.asked
        /\ http.code # HTTP_200_OK => (http.tweets = <<>> /\ http.topic = PyNone)

\* a user asks for a thread that exists and belongs to the other user
C23_Witness ==
    /\ http.op = "get"
    /\ http.code = HTTP_403_FORBIDDEN
    /\ HasId(db_threads, http.asked)
    /\ ById(db_threads, http.asked).user_id # http.user
    /\ ById(db_threads, http.asked).tweet_count > 0

\* the owner receives the thread
C23_WitnessOwner ==
    /\ http.op = "get"
    /\ http.code = HTTP_200_OK
    /\ http.tweets # <<>>
    /\ Len(db_threads) = 2

\* an id that was deleted is missing
C23_WitnessMissing ==
    /\ http.op = "get"
    /\ http.code = HTTP_404_NOT_FOUND
    /\ http.asked = 1
    /\ db_threads # <<>>

\* C24: a DELETE /tweets/{thread_id} answers 404 for an id no row has and 403
\* for a row of another user, leaving both tables as they were; for a row of
\* the authenticated user it answers 204, and afterwards tweet_threads is the
\* table without that row and tweet_histories the table without the records
\* that referenced it, every other row unchanged and in its place.
C24_DeleteFrame ==
    [][http'.op = "delete" =>
           LET id   == http'.asked
               user == http'.user
           IN  IF ~ HasId(db_threads, id)
               THEN /\ http'.code = HTTP_404_NOT_FOUND
                    /\ UNCHANGED <<db_threads, db_histories>>
               ELSE IF ById(db_threads, id).user_id # user
               THEN /\ http'.code = HTTP_403_FORBIDDEN
                    /\ UNCHANGED <<db_threads, db_histories>>
               ELSE /\ http'.code = HTTP_204_NO_CONTENT
                    /\ db_threads' = SelectSeq(db_threads, LAMBDA r : r.id # id)
                    /\ Len(db_threads') = Len(db_threads) - 1
                    /\ db_histories' = SelectSeq(db_histories, LAMBDA h : h.thread_id # id)
                    /\ \A k \in 1..Len(db_histories') : HasId(db_threads', db_histories'[k].thread_id)
      ]_vars

\* a thread was deleted; the other thread and its history record remain
C24_Witness ==
    /\ http.op = "delete"
    /\ http.code = HTTP_204_NO_CONTENT
    /\ posts = 2
    /\ Len(db_threads) = 1
    /\ Len(db_histories) = 1
    /\ db_histories[1].thread_id = db_threads[1].id
    /\ db_threads[1].id # http.asked

\* a user tried to delete the other user's thread
C24_WitnessForbidden ==
    /\ http.op = "delete"
    /\ http.code = HTTP_403_FORBIDDEN
    /\ Len(db_threads) = 2
    /\ Len(db_histories) = 2

\* the rows of tweet_threads of a user, and those newer than a given time
ThreadsOf(user) == {k \in 1..Len(db_threads) : db_threads[k].user_id = user}
NewerThan(user, t) == {k \in ThreadsOf(user) : db_threads[k].created_at > t}

\* C25: a GET /tweets/history answered 200 lists only threads of the
\* authenticated user, at most page_size of them, newest first, the k-th of
\* them being the thread with (page-1)*page_size + k - 1 newer threads of that
\* user; total_count is the number of all threads of that user; a page past
\* the end is answered 200 with an empty list and that total_count.
C25_HistoryPage ==
    LET user   == http.user
        offset == (http.page - 1) * http.page_size
        total  == Cardinality(ThreadsOf(user))
        got    == http.threads
    IN  /\ (http.op = "history" /\ http.code = HTTP_200_OK) =>
              /\ http.total_count = total
              /\ Len(got) <= http.page_size
              /\ Len(got) = Max(0, Min(http.page_size, total - offset))
              /\ \A k \in 1..Len(got) :
                    /\ got[k].user_id = user
                    /\ \E j \in ThreadsOf(user) :
                          /\ db_threads[j].id = got[k].thread_id
                          /\ db_threads[j].created_at = got[k].created_at
                          /\ Cardinality(NewerThan(user, got[k].created_at)) = offset + k - 1
              /\ \A k \in 1..(Len(got) - 1) : got[k].created_at > got[k + 1].created_at
        /\ (http.op = "history" /\ http.code # HTTP_422_UNPROCESSABLE_ENTITY
              /\ offset >= total) =>
              /\ http.code = HTTP_200_OK
              /\ got = <<>>
              /\ http.total_count = total

\* the second page of size one of a user with two threads, beside nothing
C25_Witness ==
    /\ http.op = "history"
    /\ http.code = HTTP_200_OK
    /\ http.page = 2 /\ http.page_size = 1
    /\ Len(http.threads) = 1
    /\ http.total_count = 2

\* a page past the end
C25_WitnessPastEnd ==
    /\ http.op = "history"
    /\ http.code = HTTP_200_OK
    /\ http.page = 3 /\ http.page_size = 1
    /\ http.threads = <<>>
    /\ http.total_count = 2

\* both threads of a user on one page, the other user's thread left out
C25_WitnessOthers ==
    /\ http.op = "history"
    /\ http.code = HTTP_200_OK
    /\ http.total_count = 1
    /\ Len(http.threads) = 1
    /\ Len(db_threads) = 2

\* the history records with status "success" that reference a thread
SuccessRecords(thread_id) ==
    {k \in 1..Len(db_histories) :
         db_histories[k].thread_id = thread_id /\ db_histories[k].status = "success"}

\* C30: between requests every row of tweet_threads has exactly one
\* TweetHistory record with status "success" referencing it, whichever commit
\* failed; and the step in which POST /tweets/generate answers 500 leaves
\* tweet_threads as it was.
C30_ThreadHasOneSuccess ==
    /\ [](hpc = "idle" =>
            \A k \in 1..Len(db_threads) :
                Cardinality(SuccessRecords(db_threads[k].id)) = 1)
    /\ [][(hpc = "core" /\ hpc' = "idle" /\ http'.code = HTTP_500_INTERNAL_SERVER_ERROR)
             => db_threads' = db_threads]_vars

(***************************************************************************)
(* Routing and authentication.                                             *)
(***************************************************************************)
\* C26: a GET /api/tweets/health that carries no token is handled by
\* health_check and answered 200 with status "healthy".
C26_HealthIsPublic ==
    (http.path = <<S_api, S_tweets, S_health>> /\ http.credentials = <<NoToken>>) =>
        /\ http.handler = "health_check"
        /\ http.ran
        /\ http.code = HTTP_200_OK
        /\ http.detail = <<"healthy">>

\* no two rows of users share an email or a username
UsersUnique ==
    \A j, k \in 1..Len(db_users) :
        j # k => /\ db_users[j].email # db_users[k].email
                 /\ db_users[j].username # db_users[k].username

\* C27: under every interleaving of POST /auth/register requests no two
\* users share an email or a username, and a registration that ends while
\* its email (respectively, its email being free, its username) is held by a
\* user is answered 400 "Email already registered" (respectively "Username
\* already taken") and leaves the users table as it was.
C27_RegistrationUnique ==
    /\ []UsersUnique
    /\ [][\A i \in RegSlots :
              (regs[i].pc # "idle" /\ regs'[i].pc = "idle") =>
                  /\ HasEmail(db_users, regs[i].email) =>
                        /\ http'.code = HTTP_400_BAD_REQUEST
                        /\ http'.detail = <<"Email already registered">>
                        /\ db_users' = db_users
                  /\ (~ HasEmail(db_users, regs[i].email)
                        /\ HasUsername(db_users, regs[i].username)) =>
                        /\ http'.code = HTTP_400_BAD_REQUEST
                        /\ http'.detail = <<"Username already taken">>
                        /\ db_users' = db_users]_vars

ProtectedEndpoints ==
    {Routes[k].endpoint : k \in {j \in 1..Len(Routes) : Routes[j].protected}}

\* the token decodes, carries both claims, and its sub is a user's email
TokenNamesUser(token) ==
    /\ token.present /\ token.signed /\ ~ token.expired
    /\ token.sub # NoSub /\ token.user_id # NoClaim
    /\ \E k \in 1..Len(db_users) : db_users[k].email = token.sub

\* the user with that email and that password
Holder(email, password) ==
    {k \in 1..Len(db_users) :
         db_users[k].email = email /\ db_users[k].hashed_password.of = password}

\* C28: a request to a protected endpoint runs the endpoint only with a token
\* that decodes, carries sub and user_id, and whose sub is the email of an
\* active user, and it runs as that user; a token that is missing, does not
\* decode, lacks a claim or names no user is answered 401, one that names an
\* inactive user 403.  A login answers 200 with a token for the user exactly
\* when a user has that email and that password and is active; it answers
\* 401 when no user has that email and password, 403 when the user is
\* inactive, and then issues no token.
C28_AuthenticationGate ==
    [][/\ (http' # http /\ http'.handler \in ProtectedEndpoints) =>
             LET token == http'.credentials[1]
             IN  /\ http'.ran =>
                       /\ TokenNamesUser(token)
                       /\ \E k \in 1..Len(db_users) :
                              /\ db_users[k].email = token.sub
                              /\ db_users[k].is_active
                              /\ http'.user = db_users[k].id
                 /\ ~ TokenNamesUser(token) =>
                       (http'.code = HTTP_401_UNAUTHORIZED /\ ~ http'.ran)
                 /\ (TokenNamesUser(token)
                       /\ \E k \in 1..Len(db_users) :
                              db_users[k].email = token.sub /\ ~ db_users[k].is_active) =>
                       (http'.code = HTTP_403_FORBIDDEN /\ ~ http'.ran)
       /\ (http' # http /\ http'.op = "login") =>
             LET email    == http'.credentials[1]
                 password == http'.credentials[2]
                 holder   == Holder(email, password)
             IN  /\ holder = {} =>
                       http'.code = HTTP_401_UNAUTHORIZED
                 /\ (\E k \in holder : ~ db_users[k].is_active) =>
                       http'.code = HTTP_403_FORBIDDEN
                 /\ (\E k \in holder : db_users[k].is_active) =>
                       /\ http'.code = HTTP_200_OK
                       /\ \E k \in holder :
                              http'.access_token = create_access_token(email, db_users[k].id)
                 /\ http'.code # HTTP_200_OK => http'.access_token = NoToken
      ]_vars

\* a token in order of a user who was deactivated is refused
C28_Witness ==
    /\ http.handler = "get_me"
    /\ http.code = HTTP_403_FORBIDDEN
    /\ TokenNamesUser(http.credentials[1])

\* a protected endpoint ran for the second user
C28_WitnessRan ==
    /\ http.handler = "get_me"
    /\ http.ran
    /\ http.user = 2

\* an expired token of a registered, active user
C28_WitnessExpired ==
    /\ http.handler = "get_me"
    /\ http.code = HTTP_401_UNAUTHORIZED
    /\ http.credentials[1].expired
    /\ \E k \in 1..Len(db_users) :
           db_users[k].email = http.credentials[1].sub /\ db_users[k].is_active

\* a login with the right password by a deactivated user, and a login
\* with a wrong password
C28_WitnessLoginInactive ==
    /\ http.op = "login"
    /\ http.code = HTTP_403_FORBIDDEN

C28_WitnessLoginWrongPassword ==
    /\ http.op = "login"
    /\ http.code = HTTP_401_UNAUTHORIZED
    /\ \E k \in 1..Len(db_users) : db_users[k].email = http.credentials[1]

C28_WitnessLogin ==
    /\ http.op = "login"
    /\ http.code = HTTP_200_OK
    /\ http.access_token.user_id = 2

\* C29: the admin login refuses an active registered user who is not an
\* admin although email and password are right: it does not answer with the
\* redirect into the panel and stores no token; and whenever the panel's
\* session authenticates, it is the session of an admin.
C29_AdminOnly ==
    /\ [][(http' # http /\ http'.op = "admin_login") =>
              LET holder == Holder(http'.credentials[1], http'.credentials[2])
              IN  (\E k \in holder : db_users[k].is_active /\ ~ is_admin(db_users[k])) =>
                      /\ http'.code # HTTP_302_FOUND
                      /\ admin_session' = admin_session]_vars
    /\ [](authenticate(admin_session) =>
            \E k \in 1..Len(db_users) :
                db_users[k].email = admin_session.sub /\ is_admin(db_users[k]))

====
